---- MODULE Spec2Model ----
(***************************************************************************)
(* Model of strelingo-addon (src/index.js): the subtitle merger, the time  *)
(* parser, the content fetcher and the subtitles handler.  Each has its    *)
(* own variables and its own specification; a specification leaves the     *)
(* variables of the other parts at their idle values.                      *)
(*                                                                         *)
(* mergeSubtitles(mainSubs, transSubs, mergeThresholdMs) is modelled as a  *)
(* state machine that walks its two loops one iteration at a time.  A      *)
(* parsed subtitle entry is a record that may or may not carry each of the *)
(* properties startTime, endTime and text; a time string is abstracted to  *)
(* its kind (well formed HH:MM:SS,mmm or not) and the milliseconds it      *)
(* denotes; a text is a sequence of characters.                            *)
(***************************************************************************)
EXTENDS Integers, Sequences, FiniteSets, TLC

VARIABLES
    mainSubs,          \* argument: the parsed main-language entries
    transSubs,         \* argument: the parsed translation entries
    mergeThresholdMs,  \* argument (default 500)
    mergedSubs,        \* the result array being built
    transIndex,        \* cursor into transSubs (0-based, as in the code)
    mainIdx,           \* 0-based position of the for-of loop in mainSubs
    i,                 \* 0-based index of the inner loop
    foundMatch,
    bestMatchIndex,    \* -1 when none
    smallestTimeDiff,
    pc,                \* "loop", "scan", "emit", "done", "threw"
    examined,          \* history: translation indices classified for this mainSub
    origin,            \* history: per pushed record, its mainIdx and bestMatchIndex
    call,              \* history: 1 for the call, 2 for a call on its own result
    \* parseTimeToMs
    timeString,        \* argument: a string (sequence of characters)
    parsedMs,          \* the value returned: a number or NaN
    tpc,               \* "idle", "call", "returned"
    \* fetchSubtitleContent, and the handler's test of what it returns
    url,               \* argument: a string
    sourceFormat,      \* argument (default 'srt')
    responseData,      \* history: the bytes the HTTP response carried
    contentBuffer,     \* the bytes being processed
    detectedEncoding,
    subtitleText,
    content,           \* what the call returned: a text or NoContent (null)
    candidate,         \* the caller: "pending", then "unusable" or "parsing"
    trace,             \* history: the stages attempted, in order
    fpc,               \* position in fetchSubtitleContent
    \* the subtitles handler
    request,           \* "ok", "sameLanguages" or "noImdbId"
    mainResponse,      \* what the provider answers to the main-language search
    transResponse,     \* what it answers to the translation-language search
    skipVercelBlob,    \* SKIP_VERCEL_BLOB === 'true'
    supabase,          \* whether a Supabase client is configured
    mainSubInfoList,
    transSubInfoList,
    selectedTransSubs,
    mainParsed,
    selectedMainSubInfo,
    finalSubtitles,
    mainCursor,        \* 0-based position of the for-of loop in mainSubInfoList
    tIdx,              \* the index i of the translation loop
    handlerResponse,   \* what the handler resolved with
    fetchedContent,    \* history: the content downloads, in order
    stages,            \* history: the stages entered, in order
    uploads,           \* the uploads attempted, in order: candidate id, store, whether a URL came back
    hpc,               \* position in the handler
    spc,               \* the first variant: position in its handler and its serve route
    metadata,          \* per language, the search: "none", "pending", "found", "null"
    contents,          \* per language, the download: "none", "pending", "text", "null"
    listed,            \* what the first variant's handler resolved with
    served,            \* what the serve route answered
    progress,           \* history: the stages entered, in order
    subtitleArray,     \* formatSrt: its argument
    srtString,         \* what formatSrt returned: the serialised entries, or NoList (null)
    qpc,                \* "idle", "call", "returned"
    requestsThisMinute, \* limiter slots taken since the last reset
    requestQueue,      \* searches waiting for the next reset, oldest first
    requestTimer,      \* TRUE once the reset interval is set up
    microtasks,        \* searches that took a slot and start on the next microtask
    sent,               \* requests started since the last reset, by kind
    fetchedFor,        \* per request: what its searches and downloads return
    locals,            \* the variables declared inside the handler, per invocation
    rpc,               \* per request: the await its handler stands at
    responses,          \* per request: the subtitles its handler returned
    submitted,         \* number of calls of withRateLimit so far; the n-th call has ticket n
    waited,            \* tickets that were put into requestQueue
    startOrder,        \* tickets in the order in which their functions were started
    running,           \* tickets whose function has started and not settled
    lastSettled,        \* the promise settled last: its ticket, the function's outcome, its own
    now,               \* Date.now(), in ms since the process started
    subtitleCache,     \* the Map of the second variant: id -> entry, NullSub where absent
    storedAt,          \* per id: when the handler last stored an entry under it, -1 if never
    reply,              \* what the GET route answered in the step just taken, NullSub otherwise
    \* a request from its arrival to its response
    awaited            \* what the handler waited for last, and for which candidate

mergeVars == <<mainSubs, transSubs, mergeThresholdMs, mergedSubs, transIndex,
               mainIdx, i, foundMatch, bestMatchIndex, smallestTimeDiff, pc,
               examined, origin, call>>
timeVars == <<timeString, parsedMs, tpc>>
fetchVars == <<url, sourceFormat, responseData, contentBuffer, detectedEncoding,
               subtitleText, content, candidate, trace, fpc>>

handlerVars == <<request, mainResponse, transResponse, skipVercelBlob, supabase,
                 mainSubInfoList, transSubInfoList, selectedTransSubs,
                 mainParsed, selectedMainSubInfo, finalSubtitles, mainCursor,
                 tIdx, handlerResponse, fetchedContent, stages, uploads, hpc>>

serveVars == <<spc, metadata, contents, listed, served, progress>>

formatVars == <<subtitleArray, srtString, qpc>>

rateVars == <<requestsThisMinute, requestQueue, requestTimer, microtasks, sent>>

concurrentVars == <<fetchedFor, locals, rpc, responses>>

orderVars == <<submitted, waited, startOrder, running, lastSettled>>

cacheVars == <<now, subtitleCache, storedAt, reply>>

awaitVars == <<awaited>>

vars == <<mergeVars, timeVars, fetchVars, handlerVars, serveVars, formatVars, rateVars, concurrentVars, orderVars, cacheVars, awaitVars>>

\* what mergeSubtitles, parseTimeToMs and fetchSubtitleContent do not touch
outsideMerge == <<timeVars, fetchVars, handlerVars, serveVars, formatVars, rateVars, concurrentVars, orderVars, cacheVars, awaitVars>>
outsideTime == <<mergeVars, fetchVars, handlerVars, serveVars, formatVars, rateVars, concurrentVars, orderVars, cacheVars, awaitVars>>
outsideFetch == <<mergeVars, timeVars, handlerVars, serveVars, formatVars, rateVars, concurrentVars, orderVars, cacheVars, awaitVars>>
outsideHandler == <<mergeVars, timeVars, fetchVars, serveVars, formatVars, rateVars, concurrentVars, orderVars, cacheVars, awaitVars>>
outsideServe == <<mergeVars, timeVars, fetchVars, handlerVars, formatVars, rateVars, concurrentVars, orderVars, cacheVars, awaitVars>>
outsideFormat == <<mergeVars, timeVars, fetchVars, handlerVars, serveVars, rateVars, concurrentVars, orderVars, cacheVars, awaitVars>>
outsideRate == <<mergeVars, timeVars, fetchVars, handlerVars, serveVars, formatVars, concurrentVars, orderVars, cacheVars, awaitVars>>
outsideConcurrent == <<mergeVars, timeVars, fetchVars, handlerVars, serveVars, formatVars, rateVars, orderVars, cacheVars, awaitVars>>
\* what neither the rate limiter nor the concurrent requests touch
outsideRequests == <<mergeVars, timeVars, fetchVars, handlerVars, serveVars, formatVars, orderVars, cacheVars, awaitVars>>
\* what the rate limiter with its callers' promises does not touch
outsideLimiter == <<mergeVars, timeVars, fetchVars, handlerVars, serveVars, formatVars, concurrentVars, cacheVars, awaitVars>>
outsideOrder == <<mergeVars, timeVars, fetchVars, handlerVars, serveVars, formatVars, rateVars, concurrentVars, cacheVars, awaitVars>>
outsideCache == <<mergeVars, timeVars, fetchVars, handlerVars, serveVars, formatVars, rateVars, concurrentVars, orderVars, awaitVars>>
outsideAwait == <<mergeVars, timeVars, fetchVars, handlerVars, serveVars, formatVars, rateVars, concurrentVars, orderVars, cacheVars>>

(***************************************************************************)
(* Bounds of the explored inputs.                                          *)
(***************************************************************************)
MaxTime == 3        \* times of the short sequences range over 0..MaxTime ms
MaxSubs == 2        \* longest sorted main / translation sequence
MaxTextLen == 2     \* longest free caption text, in characters

DefaultMergeThresholdMs == 500

\* Stands for JavaScript's Infinity: larger than every time difference.
Infinity == -1

(***************************************************************************)
(* Values.                                                                 *)
(***************************************************************************)
WellFormed(ms) == [kind |-> "wellformed", ms |-> ms]
Malformed == [kind |-> "malformed", ms |-> 0]

NullSub == [null |-> TRUE]

Sub(start, end, text) == [startTime |-> start, endTime |-> end, text |-> text]
SubNoText(start, end) == [startTime |-> start, endTime |-> end]
SubNoStart(end, text) == [endTime |-> end, text |-> text]
SubNoEnd(start, text) == [startTime |-> start, text |-> text]

Has(sub, field) == sub # NullSub /\ field \in DOMAIN sub

MarkupOpen == <<"<font color=\"yellow\"><i>">>
MarkupClose == <<"</i></font>">>

(***************************************************************************)
(* parseTimeToMs: 0 for a missing or malformed string, else the value.     *)
(***************************************************************************)
\* variant: a malformed string counts as 1 ms
parseTimeToMsOrOne(sub, field) ==
    IF ~Has(sub, field) THEN 0
    ELSE IF sub[field].kind # "wellformed" THEN 1
    ELSE sub[field].ms

parseTimeToMs(sub, field) ==
    IF ~Has(sub, field) \/ sub[field].kind # "wellformed"
    THEN 0
    ELSE sub[field].ms

(***************************************************************************)
(* text.replace(/\r?\n|\r/g, ' ')                                          *)
(***************************************************************************)
\* variant: \r and \n replaced one by one, so \r\n gives two spaces
RECURSIVE replaceEachLineBreak(_)
replaceEachLineBreak(s) ==
    IF s = <<>> THEN <<>>
    ELSE IF s[1] = "\n" \/ s[1] = "\r"
         THEN <<" ">> \o replaceEachLineBreak(Tail(s))
    ELSE <<s[1]>> \o replaceEachLineBreak(Tail(s))

\* variant: the pattern /\r?\n/g, which leaves a lone \r in place
RECURSIVE replaceLineFeedsOnly(_)
replaceLineFeedsOnly(s) ==
    IF s = <<>> THEN <<>>
    ELSE IF Len(s) >= 2 /\ s[1] = "\r" /\ s[2] = "\n"
         THEN <<" ">> \o replaceLineFeedsOnly(SubSeq(s, 3, Len(s)))
    ELSE IF s[1] = "\n"
         THEN <<" ">> \o replaceLineFeedsOnly(Tail(s))
    ELSE <<s[1]>> \o replaceLineFeedsOnly(Tail(s))

RECURSIVE replaceLineBreaks(_)
replaceLineBreaks(s) ==
    IF s = <<>> THEN <<>>
    ELSE IF Len(s) >= 2 /\ s[1] = "\r" /\ s[2] = "\n"
         THEN <<" ">> \o replaceLineBreaks(SubSeq(s, 3, Len(s)))
    ELSE IF s[1] = "\n" \/ s[1] = "\r"
         THEN <<" ">> \o replaceLineBreaks(Tail(s))
    ELSE <<s[1]>> \o replaceLineBreaks(Tail(s))

\* { ...mainSub, text: t }
WithText(sub, t) ==
    [f \in DOMAIN sub \cup {"text"} |-> IF f = "text" THEN t ELSE sub[f]]

mergedText(mainSub, bestTransSub) ==
    replaceLineBreaks(mainSub.text) \o <<"\n">> \o MarkupOpen
        \o replaceLineBreaks(bestTransSub.text) \o MarkupClose

(***************************************************************************)
(* The entries and times the loops are looking at.                         *)
(***************************************************************************)
mainSub == mainSubs[mainIdx + 1]
transSub == transSubs[i + 1]

\* variant: an entry whose times do not parse is rejected as well
invalidEntryOrUnparsable(sub) ==
    IF sub = NullSub \/ ~Has(sub, "startTime") \/ ~Has(sub, "endTime")
    THEN TRUE
    ELSE sub.startTime.kind # "wellformed" \/ sub.endTime.kind # "wellformed"

invalidEntry(sub) == sub = NullSub \/ ~Has(sub, "startTime") \/ ~Has(sub, "endTime")

mainStartTime == parseTimeToMs(mainSub, "startTime")
mainEndTime == parseTimeToMs(mainSub, "endTime")
transStartTime == parseTimeToMs(transSub, "startTime")
transEndTime == parseTimeToMs(transSub, "endTime")

Abs(n) == IF n < 0 THEN -n ELSE n

startsOverlap(ms, me, ts, te) == ts >= ms /\ ts < me
endsOverlap(ms, me, ts, te) == te > ms /\ te <= me
\* variant: strict comparisons
isWithinStrict(ms, me, ts, te) == ts > ms /\ te < me
isWithin(ms, me, ts, te) == ts >= ms /\ te <= me
\* variant: comparisons that admit equal bounds
containsOrEqual(ms, me, ts, te) == ts <= ms /\ te >= me
contains(ms, me, ts, te) == ts < ms /\ te > me
\* variant: the difference with its sign
timeDiffSigned(ms, ts) == ms - ts
timeDiff(ms, ts) == Abs(ms - ts)

\* variant: a start difference equal to the threshold also matches
potentialMatchOrEqual(ms, me, ts, te, threshold) ==
    \/ startsOverlap(ms, me, ts, te)
    \/ endsOverlap(ms, me, ts, te)
    \/ isWithin(ms, me, ts, te)
    \/ contains(ms, me, ts, te)
    \/ timeDiff(ms, ts) <= threshold

potentialMatch(ms, me, ts, te, threshold) ==
    \/ startsOverlap(ms, me, ts, te)
    \/ endsOverlap(ms, me, ts, te)
    \/ isWithin(ms, me, ts, te)
    \/ contains(ms, me, ts, te)
    \/ timeDiff(ms, ts) < threshold

\* variant: the threshold subtracted from the end time
tooFarBeforeEnd(me, ts, threshold) == ts > me - threshold

tooFarAfter(me, ts, threshold) == ts > me + threshold

\* variant: a later candidate at the same difference replaces the earlier
closerOrEqual(diff, smallest) == smallest = Infinity \/ diff <= smallest
closer(diff, smallest) == smallest = Infinity \/ diff < smallest

\* variant: a margin of one threshold instead of two
cursorAfterOneThreshold(ms, te, threshold) ==
    IF te < ms - threshold /\ i = transIndex THEN i + 1 ELSE transIndex

\* variant: without the margin of twice the threshold
cursorAfterEnded(ms, te, threshold) ==
    IF te < ms /\ i = transIndex THEN i + 1 ELSE transIndex

\* variant: without the test i === transIndex
cursorAfterAnyIndex(ms, te, threshold) ==
    IF te < ms - threshold * 2 THEN i + 1 ELSE transIndex

\* lines 1767-1769: the cursor moves only past the entry it points at
cursorAfter(ms, te, threshold) ==
    IF te < ms - threshold * 2 /\ i = transIndex THEN i + 1 ELSE transIndex

isMatch == potentialMatch(mainStartTime, mainEndTime, transStartTime,
                          transEndTime, mergeThresholdMs)
isTooFar == tooFarAfter(mainEndTime, transStartTime, mergeThresholdMs)

(***************************************************************************)
(* Actions of mergeSubtitles.                                              *)
(***************************************************************************)
inputs == <<mainSubs, transSubs, mergeThresholdMs>>

\* lines 1712-1721: an entry without start or end time is skipped
SkipInvalidMain ==
    /\ pc = "loop" /\ mainIdx < Len(mainSubs)
    /\ invalidEntry(mainSub)
    /\ foundMatch' = FALSE /\ bestMatchIndex' = -1 /\ smallestTimeDiff' = Infinity
    /\ mainIdx' = mainIdx + 1
    /\ examined' = {}
    /\ UNCHANGED <<outsideMerge, inputs, mergedSubs, transIndex, i, pc, origin, call>>

\* lines 1712-1727: a valid entry starts the inner loop at the cursor
StartScan ==
    /\ pc = "loop" /\ mainIdx < Len(mainSubs)
    /\ ~invalidEntry(mainSub)
    /\ foundMatch' = FALSE /\ bestMatchIndex' = -1 /\ smallestTimeDiff' = Infinity
    /\ i' = transIndex
    /\ pc' = "scan"
    /\ examined' = {}
    /\ UNCHANGED <<outsideMerge, inputs, mergedSubs, transIndex, mainIdx, origin, call>>

\* lines 1730-1734
SkipInvalidTrans ==
    /\ pc = "scan" /\ i < Len(transSubs)
    /\ invalidEntry(transSub)
    /\ i' = i + 1
    /\ UNCHANGED <<outsideMerge, inputs, mergedSubs, transIndex, mainIdx, foundMatch,
                   bestMatchIndex, smallestTimeDiff, pc, examined, origin, call>>

\* lines 1747-1754 and 1767-1769
PotentialMatch ==
    /\ pc = "scan" /\ i < Len(transSubs)
    /\ ~invalidEntry(transSub)
    /\ isMatch
    /\ LET diff == timeDiff(mainStartTime, transStartTime) IN
         IF closer(diff, smallestTimeDiff)
         THEN smallestTimeDiff' = diff /\ bestMatchIndex' = i
         ELSE UNCHANGED <<smallestTimeDiff, bestMatchIndex>>
    /\ foundMatch' = TRUE
    /\ transIndex' = cursorAfter(mainStartTime, transEndTime, mergeThresholdMs)
    /\ i' = i + 1
    /\ examined' = examined \cup {i}
    /\ UNCHANGED <<outsideMerge, inputs, mergedSubs, mainIdx, pc, origin, call>>

\* lines 1755-1758
StopAfterMatch ==
    /\ pc = "scan" /\ i < Len(transSubs)
    /\ ~invalidEntry(transSub)
    /\ ~isMatch /\ foundMatch /\ isTooFar
    /\ pc' = "emit"
    /\ examined' = examined \cup {i}
    /\ UNCHANGED <<outsideMerge, inputs, mergedSubs, transIndex, mainIdx, i, foundMatch,
                   bestMatchIndex, smallestTimeDiff, origin, call>>

\* lines 1759-1763
StopNoMatch ==
    /\ pc = "scan" /\ i < Len(transSubs)
    /\ ~invalidEntry(transSub)
    /\ ~isMatch /\ ~foundMatch /\ isTooFar
    /\ pc' = "emit"
    /\ examined' = examined \cup {i}
    /\ UNCHANGED <<outsideMerge, inputs, mergedSubs, transIndex, mainIdx, i, foundMatch,
                   bestMatchIndex, smallestTimeDiff, origin, call>>

\* neither branch of the chain taken; lines 1767-1769
PassOver ==
    /\ pc = "scan" /\ i < Len(transSubs)
    /\ ~invalidEntry(transSub)
    /\ ~isMatch /\ ~isTooFar
    /\ transIndex' = cursorAfter(mainStartTime, transEndTime, mergeThresholdMs)
    /\ i' = i + 1
    /\ examined' = examined \cup {i}
    /\ UNCHANGED <<outsideMerge, inputs, mergedSubs, mainIdx, foundMatch, bestMatchIndex,
                   smallestTimeDiff, pc, origin, call>>

scanOver == pc = "emit" \/ (pc = "scan" /\ i >= Len(transSubs))

\* variant: spreads the translation entry instead of the main entry
PushMergedTransTiming ==
    /\ scanOver
    /\ bestMatchIndex # -1
    /\ Has(mainSub, "text") /\ Has(transSubs[bestMatchIndex + 1], "text")
    /\ mergedSubs' = Append(mergedSubs,
           WithText(transSubs[bestMatchIndex + 1],
                    mergedText(mainSub, transSubs[bestMatchIndex + 1])))
    /\ mainIdx' = mainIdx + 1
    /\ pc' = "loop"
    /\ origin' = Append(origin, [main |-> mainIdx, trans |-> bestMatchIndex])
    /\ UNCHANGED <<outsideMerge, inputs, transIndex, i, foundMatch, bestMatchIndex,
                   smallestTimeDiff, examined, call>>

\* variant: takes the entry at the cursor instead of the best match
PushMergedAtCursor ==
    /\ scanOver
    /\ bestMatchIndex # -1
    /\ transIndex < Len(transSubs)
    /\ Has(mainSub, "text") /\ Has(transSubs[transIndex + 1], "text")
    /\ mergedSubs' = Append(mergedSubs,
           WithText(mainSub, mergedText(mainSub, transSubs[transIndex + 1])))
    /\ mainIdx' = mainIdx + 1
    /\ pc' = "loop"
    /\ origin' = Append(origin, [main |-> mainIdx, trans |-> bestMatchIndex])
    /\ UNCHANGED <<outsideMerge, inputs, transIndex, i, foundMatch, bestMatchIndex,
                   smallestTimeDiff, examined, call>>

\* variant: writes the combined text into the main entry and pushes that entry
PushMergedInPlace ==
    /\ scanOver
    /\ bestMatchIndex # -1
    /\ Has(mainSub, "text") /\ Has(transSubs[bestMatchIndex + 1], "text")
    /\ LET written == WithText(mainSub, mergedText(mainSub, transSubs[bestMatchIndex + 1])) IN
        /\ mainSubs' = [mainSubs EXCEPT ![mainIdx + 1] = written]
        /\ mergedSubs' = Append(mergedSubs, written)
    /\ mainIdx' = mainIdx + 1
    /\ pc' = "loop"
    /\ origin' = Append(origin, [main |-> mainIdx, trans |-> bestMatchIndex])
    /\ UNCHANGED <<outsideMerge, transSubs, mergeThresholdMs, transIndex, i, foundMatch,
                   bestMatchIndex, smallestTimeDiff, examined, call>>

\* lines 1773-1783
PushMerged ==
    /\ scanOver
    /\ bestMatchIndex # -1
    /\ Has(mainSub, "text") /\ Has(transSubs[bestMatchIndex + 1], "text")
    /\ mergedSubs' = Append(mergedSubs,
           WithText(mainSub, mergedText(mainSub, transSubs[bestMatchIndex + 1])))
    /\ mainIdx' = mainIdx + 1
    /\ pc' = "loop"
    /\ origin' = Append(origin, [main |-> mainIdx, trans |-> bestMatchIndex])
    /\ UNCHANGED <<outsideMerge, inputs, transIndex, i, foundMatch, bestMatchIndex,
                   smallestTimeDiff, examined, call>>

\* variant: pushes the main entry as it is (lines 381-384)
PushUnmergedAsIs ==
    /\ scanOver
    /\ bestMatchIndex = -1
    /\ Has(mainSub, "text")
    /\ mergedSubs' = Append(mergedSubs, mainSub)
    /\ mainIdx' = mainIdx + 1
    /\ pc' = "loop"
    /\ origin' = Append(origin, [main |-> mainIdx, trans |-> -1])
    /\ UNCHANGED <<outsideMerge, inputs, transIndex, i, foundMatch, bestMatchIndex,
                   smallestTimeDiff, examined, call>>

\* lines 1784-1790
PushUnmerged ==
    /\ scanOver
    /\ bestMatchIndex = -1
    /\ Has(mainSub, "text")
    /\ mergedSubs' = Append(mergedSubs,
           WithText(mainSub, replaceLineBreaks(mainSub.text)))
    /\ mainIdx' = mainIdx + 1
    /\ pc' = "loop"
    /\ origin' = Append(origin, [main |-> mainIdx, trans |-> -1])
    /\ UNCHANGED <<outsideMerge, inputs, transIndex, i, foundMatch, bestMatchIndex,
                   smallestTimeDiff, examined, call>>

\* lines 1776, 1777, 1788: .replace on an undefined text raises a TypeError
ThrowTypeError ==
    /\ scanOver
    /\ \/ ~Has(mainSub, "text")
       \/ bestMatchIndex # -1 /\ ~Has(transSubs[bestMatchIndex + 1], "text")
    /\ pc' = "threw"
    /\ UNCHANGED <<outsideMerge, inputs, mergedSubs, transIndex, mainIdx, i, foundMatch,
                   bestMatchIndex, smallestTimeDiff, examined, origin, call>>

\* lines 1792-1793
Return ==
    /\ pc = "loop" /\ mainIdx >= Len(mainSubs)
    /\ pc' = "done"
    /\ UNCHANGED <<outsideMerge, inputs, mergedSubs, transIndex, mainIdx, i, foundMatch,
                   bestMatchIndex, smallestTimeDiff, examined, origin, call>>

timeIdle == timeString = <<>> /\ parsedMs = 0 /\ tpc = "idle"

\* null, where a text is expected
NoContent == <<"null">>

fetchIdle ==
    /\ url = <<>> /\ sourceFormat = "srt"
    /\ responseData = <<>> /\ contentBuffer = <<>>
    /\ detectedEncoding = "utf8" /\ subtitleText = <<>>
    /\ content = NoContent /\ candidate = "pending"
    /\ trace = <<>> /\ fpc = "idle"

\* null, where a list of candidates is expected
NoList == <<NullSub>>

handlerIdle ==
    /\ request = "ok" /\ mainResponse = NoList /\ transResponse = NoList
    /\ skipVercelBlob = FALSE /\ supabase = FALSE
    /\ mainSubInfoList = NoList /\ transSubInfoList = NoList
    /\ selectedTransSubs = <<>>
    /\ mainParsed = NullSub /\ selectedMainSubInfo = NullSub
    /\ finalSubtitles = <<>> /\ mainCursor = 0 /\ tIdx = 0
    /\ handlerResponse = NullSub /\ fetchedContent = <<>>
    /\ stages = <<>> /\ uploads = <<>>
    /\ hpc = "idle"

serveIdle ==
    /\ spc = "idle"
    /\ metadata = [l \in {"main", "trans"} |-> "none"]
    /\ contents = [l \in {"main", "trans"} |-> "none"]
    /\ listed = NullSub /\ served = NullSub
    /\ progress = <<>>

formatIdle ==
    /\ subtitleArray = <<>> /\ srtString = NoList /\ qpc = "idle"

rateIdle ==
    /\ requestsThisMinute = 0 /\ requestQueue = <<>> /\ requestTimer = FALSE
    /\ microtasks = <<>>
    /\ sent = [search |-> 0, butaNoSubs |-> 0, content |-> 0]

concurrentIdle ==
    /\ fetchedFor = <<>> /\ locals = <<>> /\ rpc = <<>> /\ responses = <<>>

orderIdle ==
    /\ submitted = 0 /\ waited = {} /\ startOrder = <<>> /\ running = {}
    /\ lastSettled = NullSub

cacheIdle ==
    /\ now = 0 /\ subtitleCache = <<>> /\ storedAt = <<>> /\ reply = NullSub

awaitIdle ==
    /\ awaited = [on |-> "nothing", at |-> 0]

callStart ==
    /\ mergedSubs = <<>>
    /\ transIndex = 0
    /\ mainIdx = 0
    /\ i = 0
    /\ foundMatch = FALSE
    /\ bestMatchIndex = -1
    /\ smallestTimeDiff = Infinity
    /\ pc = "loop"
    /\ examined = {}
    /\ origin = <<>>

allUnmatched == \A k \in 1..Len(origin) : origin[k].trans = -1

\* A second call, mergeSubtitles(result, []), on a result that merged nothing.
MergeAgain ==
    /\ pc = "done" /\ call = 1
    /\ allUnmatched
    /\ mainSubs' = mergedSubs
    /\ transSubs' = <<>>
    /\ mergedSubs' = <<>> /\ transIndex' = 0 /\ mainIdx' = 0 /\ i' = 0
    /\ foundMatch' = FALSE /\ bestMatchIndex' = -1 /\ smallestTimeDiff' = Infinity
    /\ pc' = "loop" /\ examined' = {} /\ origin' = <<>>
    /\ call' = 2
    /\ UNCHANGED <<outsideMerge, mergeThresholdMs>>

MergeNext ==
    \/ SkipInvalidMain
    \/ StartScan
    \/ SkipInvalidTrans
    \/ PotentialMatch
    \/ StopAfterMatch
    \/ StopNoMatch
    \/ PassOver
    \/ PushMerged
    \/ PushUnmerged
    \/ ThrowTypeError
    \/ Return
    \/ MergeAgain

(***************************************************************************)
(* Inputs.                                                                 *)
(***************************************************************************)
SeqsUpTo(S, n) == UNION {[1..k -> S] : k \in 0..n}

Letters == <<"a", "b", "c", "d">>
Chars == {"a", "\n", "\r"}
Texts == SeqsUpTo(Chars, MaxTextLen)

\* intervals with end >= start
Intervals(max) == {<<s, e>> : s \in 0..max, e \in 0..max}
Ordered(max) == {iv \in Intervals(max) : iv[1] <= iv[2]}

sortedByStart(ivs) == \A k \in 1..Len(ivs) - 1 : ivs[k][1] <= ivs[k + 1][1]

\* Timed entries; the text of an entry names its position.
Timed(ivs, tag) ==
    [k \in 1..Len(ivs) |->
        Sub(WellFormed(ivs[k][1]), WellFormed(ivs[k][2]), <<tag, Letters[k]>>)]

\* at most three entries in all, in any order, over 0..MaxTime
InitDense ==
    /\ \E m, t \in SeqsUpTo(Ordered(MaxTime), 2) :
          /\ Len(m) + Len(t) <= 3
          /\ mainSubs = Timed(m, "m")
          /\ transSubs = Timed(t, "t")
    /\ mergeThresholdMs \in {1, 2}

\* up to two entries per language, in any order, over 0..2
InitPairs ==
    /\ \E ivs \in SeqsUpTo(Ordered(2), 2) : mainSubs = Timed(ivs, "m")
    /\ \E ivs \in SeqsUpTo(Ordered(2), 2) : transSubs = Timed(ivs, "t")
    /\ mergeThresholdMs \in {1, 2}

\* sequences sorted by start time as a subtitle file lists them, over 0..2
InitSorted ==
    /\ \E ivs \in SeqsUpTo(Ordered(2), MaxSubs) :
          sortedByStart(ivs) /\ mainSubs = Timed(ivs, "m")
    /\ \E ivs \in SeqsUpTo(Ordered(2), MaxSubs) :
          sortedByStart(ivs) /\ transSubs = Timed(ivs, "t")
    /\ mergeThresholdMs = 0

\* up to two entries per language, some ending before they start, over 0..3
Reversed == {iv \in Intervals(3) : iv[1] > iv[2]} \cup {<<0, 0>>, <<3, 3>>}

InitReversed ==
    /\ \E ivs \in SeqsUpTo(Reversed, 2) : mainSubs = Timed(ivs, "m")
    /\ \E ivs \in SeqsUpTo(Reversed, 2) : transSubs = Timed(ivs, "t")
    /\ mergeThresholdMs \in {0, 1}

\* entries with a missing or malformed property
Shapes == {"noend", "nostart", "null", "badstart", "badend", "badtimes",
           "reversed", "notext", "early", "late"}

Shaped(shape, text) ==
    CASE shape = "null" -> NullSub
      [] shape = "nostart" -> SubNoStart(WellFormed(1), text)
      [] shape = "noend" -> SubNoEnd(WellFormed(0), text)
      [] shape = "badstart" -> Sub(Malformed, WellFormed(1), text)
      [] shape = "badend" -> Sub(WellFormed(1), Malformed, text)
      [] shape = "badtimes" -> Sub(Malformed, Malformed, text)
      [] shape = "reversed" -> Sub(WellFormed(3), WellFormed(0), text)
      [] shape = "notext" -> SubNoText(WellFormed(0), WellFormed(1))
      [] shape = "early" -> Sub(WellFormed(0), WellFormed(1), text)
      [] shape = "late" -> Sub(WellFormed(2), WellFormed(3), text)

ShapedSeq(shapes, tag) ==
    [k \in 1..Len(shapes) |-> Shaped(shapes[k], <<tag, Letters[k]>>)]

InitShaped ==
    /\ \E shapes \in SeqsUpTo(Shapes, 2) : mainSubs = ShapedSeq(shapes, "m")
    /\ \E shapes \in SeqsUpTo(Shapes, 2) : transSubs = ShapedSeq(shapes, "t")
    /\ mergeThresholdMs = 1

\* one caption per language with free texts, overlapping or far apart
InitTexts ==
    /\ \E text \in Texts : mainSubs = <<Sub(WellFormed(0), WellFormed(1), text)>>
    /\ \/ transSubs = <<>>
       \/ \E text \in Texts, start \in {0, 3} :
             transSubs = <<Sub(WellFormed(start), WellFormed(start + 1), text)>>
    /\ mergeThresholdMs = 1

\* the two worked examples, with the default threshold
Hello == <<"H", "e", "l", "l", "o">>
Bonjour == <<"B", "o", "n", "j", "o", "u", "r">>

InitExamples ==
    /\ mainSubs = <<Sub(WellFormed(0), WellFormed(2000), Hello)>>
    /\ \/ transSubs = <<Sub(WellFormed(100), WellFormed(1900), Bonjour)>>
       \/ transSubs = <<Sub(WellFormed(10000), WellFormed(12000), Bonjour)>>
    /\ mergeThresholdMs = DefaultMergeThresholdMs

\* one main entry, its end before or after its start, and three translation
\* entries sorted by start time, over 0..2
InitStops ==
    /\ \E iv \in Intervals(MaxTime) : mainSubs = Timed(<<iv>>, "m")
    /\ \E ivs \in [1..3 -> Ordered(2)] :
          sortedByStart(ivs) /\ transSubs = Timed(ivs, "t")
    /\ mergeThresholdMs \in {0, 1}

\* one short main entry and one translation entry that starts the default
\* threshold, or one millisecond less or more, before or after it
InitNear ==
    /\ mergeThresholdMs = DefaultMergeThresholdMs
    /\ LET start == 2 * DefaultMergeThresholdMs IN
        /\ mainSubs = Timed(<<<<start, start + 1>>>>, "m")
        /\ \E d \in {DefaultMergeThresholdMs - 1, DefaultMergeThresholdMs,
                      DefaultMergeThresholdMs + 1} :
              \E at \in {start - d, start + d} :
                  transSubs = Timed(<<<<at, at + 1>>>>, "t")

MergeInit ==
    /\ InitDense \/ InitPairs \/ InitSorted \/ InitReversed \/ InitShaped
       \/ InitTexts \/ InitExamples \/ InitStops \/ InitNear
    /\ callStart
    /\ call = 1
    /\ timeIdle /\ fetchIdle /\ handlerIdle /\ serveIdle /\ formatIdle /\ rateIdle /\ concurrentIdle /\ orderIdle /\ cacheIdle /\ awaitIdle

MergeSpec == MergeInit /\ [][MergeNext]_vars

(***************************************************************************)
(* Vocabulary of the properties.                                           *)
(***************************************************************************)
returned == pc = "done"

hasTimes(sub) ==
    /\ sub # NullSub
    /\ "startTime" \in DOMAIN sub
    /\ "endTime" \in DOMAIN sub

\* the start and end time an entry carries, as written
timing(sub) == [f \in DOMAIN sub \cap {"startTime", "endTime"} |-> sub[f]]

\* 1-based positions of the primary entries that have both times, in order
positions(seq) == [k \in 1..Len(seq) |-> k]
keptPositions == SelectSeq(positions(mainSubs), LAMBDA k : hasTimes(mainSubs[k]))

startMs(sub) == IF sub.startTime.kind = "wellformed" THEN sub.startTime.ms ELSE 0
endMs(sub) == IF sub.endTime.kind = "wellformed" THEN sub.endTime.ms ELSE 0

\* one of the five conditions holds between a primary and a secondary entry
qualifies(m, t) ==
    potentialMatch(startMs(m), endMs(m), startMs(t), endMs(t), mergeThresholdMs)

startGap(m, t) == Abs(startMs(m) - startMs(t))

hasMarkup(text) ==
    \E p \in 1..Len(text) : text[p] = MarkupOpen[1] \/ text[p] = MarkupClose[1]

lineBreaks(text) == {p \in 1..Len(text) : text[p] = "\n" \/ text[p] = "\r"}

\* sorted by start time, parsable times, end >= start, text present
wellFormedSorted(seq) ==
    /\ \A k \in 1..Len(seq) :
          /\ hasTimes(seq[k]) /\ "text" \in DOMAIN seq[k]
          /\ seq[k].startTime.kind = "wellformed"
          /\ seq[k].endTime.kind = "wellformed"
          /\ startMs(seq[k]) <= endMs(seq[k])
    /\ \A k \in 1..Len(seq) - 1 : startMs(seq[k]) <= startMs(seq[k + 1])

(***************************************************************************)
(* C1 as stated: whenever mergeSubtitles returns, the result has exactly   *)
(* as many records as the primary sequence (stated for primary sequences   *)
(* none of whose entries is null; it fails already there).                 *)
(***************************************************************************)
noNull(seq) == \A k \in 1..Len(seq) : seq[k] # NullSub

C1_LengthEqualsPrimary ==
    (returned /\ noNull(mainSubs)) => Len(mergedSubs) = Len(mainSubs)

(***************************************************************************)
(* C1 amended: the records pushed so far are, one each and in order, the   *)
(* primary entries before the loop position that have a start and an end   *)
(* time; so the result has len(P) records when every entry has both.       *)
(***************************************************************************)
C1_OneRecordPerTimedPrimary ==
    LET kept == SelectSeq(keptPositions, LAMBDA k : k <= mainIdx)
    IN  /\ Len(mergedSubs) = Len(kept)
        /\ \A n \in 1..Len(kept) : origin[n].main + 1 = kept[n]
        /\ (returned /\ Len(keptPositions) = Len(mainSubs))
              => Len(mergedSubs) = Len(mainSubs)

C1_Witness ==
    /\ returned
    /\ Len(mainSubs) = 2 /\ Len(transSubs) = 2
    /\ Len(mergedSubs) = 1
    /\ ~hasTimes(mainSubs[1])

(***************************************************************************)
(* C2 as stated: the k-th returned record carries the start and end time   *)
(* of the k-th primary entry (for primary sequences without null entries). *)
(***************************************************************************)
C2_KthTimingIsKthPrimary ==
    (returned /\ noNull(mainSubs)) =>
        \A k \in 1..Len(mergedSubs) :
            k <= Len(mainSubs) /\ timing(mergedSubs[k]) = timing(mainSubs[k])

(***************************************************************************)
(* C2 amended: the k-th returned record carries the start and end time of  *)
(* the k-th primary entry that has both times, matched or not; it differs  *)
(* from that entry in its text alone, so no time of a secondary entry is   *)
(* ever copied.                                                            *)
(***************************************************************************)
C2_TimingOfKthTimedPrimary ==
    returned =>
        /\ Len(mergedSubs) = Len(keptPositions)
        /\ \A k \in 1..Len(mergedSubs) :
              LET m == mainSubs[keptPositions[k]] IN
              /\ timing(mergedSubs[k]) = timing(m)
              /\ DOMAIN mergedSubs[k] = DOMAIN m
              /\ \A f \in DOMAIN m \ {"text"} : mergedSubs[k][f] = m[f]

C2_Witness ==
    /\ returned
    /\ Len(mergedSubs) = 2
    /\ origin[1].trans # -1 /\ origin[2].trans = -1
    /\ timing(mergedSubs[1]) # timing(transSubs[origin[1].trans + 1])
    /\ timing(mergedSubs[1]) = timing(mainSubs[1])

(***************************************************************************)
(* C3: while and after a primary entry is scanned, bestMatchIndex is the   *)
(* examined candidate that satisfies one of the five conditions and has    *)
(* the smallest start-time difference, the lowest index among equals; it   *)
(* is -1 exactly when no examined candidate satisfies any.                 *)
(***************************************************************************)
C3_BestIsClosestExamined ==
    pc \in {"scan", "emit"} =>
        LET cands == {j \in examined : qualifies(mainSub, transSubs[j + 1])}
            gap(j) == startGap(mainSub, transSubs[j + 1])
        IN  IF cands = {}
            THEN bestMatchIndex = -1
            ELSE /\ bestMatchIndex \in cands
                 /\ \A j \in cands :
                       \/ gap(bestMatchIndex) < gap(j)
                       \/ gap(bestMatchIndex) = gap(j) /\ bestMatchIndex <= j

C3_Witness ==
    /\ scanOver
    /\ examined = {0, 1}
    /\ qualifies(mainSub, transSubs[1]) /\ qualifies(mainSub, transSubs[2])
    /\ startGap(mainSub, transSubs[1]) = startGap(mainSub, transSubs[2])
    /\ bestMatchIndex = 0

(***************************************************************************)
(* C4: for sequences sorted by start time with parsable times and          *)
(* end >= start, a returned record carries the secondary markup if and     *)
(* only if some secondary entry satisfies one of the five conditions       *)
(* against its primary entry; the two worked examples come out as stated.  *)
(***************************************************************************)
exampleA ==
    /\ mainSubs = <<Sub(WellFormed(0), WellFormed(2000), Hello)>>
    /\ transSubs = <<Sub(WellFormed(100), WellFormed(1900), Bonjour)>>
    /\ mergeThresholdMs = 500

exampleB ==
    /\ mainSubs = <<Sub(WellFormed(0), WellFormed(2000), Hello)>>
    /\ transSubs = <<Sub(WellFormed(10000), WellFormed(12000), Bonjour)>>
    /\ mergeThresholdMs = 500

C5_EmptySecondaryKeepsEveryPrimary ==
    (returned /\ transSubs = <<>> /\ noNull(mainSubs)) =>
        /\ Len(mergedSubs) = Len(mainSubs)
        /\ \A k \in 1..Len(mergedSubs) :
              /\ timing(mergedSubs[k]) = timing(mainSubs[k])
              /\ ~hasMarkup(mergedSubs[k].text)

(***************************************************************************)
(* C5 amended: with an empty secondary sequence the result has one record  *)
(* per primary entry that has both times, in order, each with that entry's *)
(* timing and its text with nothing appended.                              *)
(***************************************************************************)
C5_EmptySecondaryKeepsTimedPrimaries ==
    (returned /\ transSubs = <<>>) =>
        /\ Len(mergedSubs) = Len(keptPositions)
        /\ \A k \in 1..Len(mergedSubs) :
              LET m == mainSubs[keptPositions[k]] IN
              /\ timing(mergedSubs[k]) = timing(m)
              /\ Len(mergedSubs[k].text) <= Len(m.text)
              /\ lineBreaks(mergedSubs[k].text) = {}
              /\ ~hasMarkup(mergedSubs[k].text)
              /\ lineBreaks(m.text) = {} => mergedSubs[k].text = m.text

C5_Witness ==
    /\ returned /\ transSubs = <<>> /\ call = 1
    /\ Len(mainSubs) = 2 /\ Len(mergedSubs) = 2
    /\ lineBreaks(mainSubs[1].text) = {}

(***************************************************************************)
(* C6 as stated: when the two sequences have the same length and pairwise  *)
(* identical start and end times, every primary entry is matched with the  *)
(* secondary entry of the same index.  It is stated here for sequences as  *)
(* a subtitle file holds them, sorted by start time with end >= start, and *)
(* fails already there.                                                    *)
(***************************************************************************)
identicalTimings ==
    /\ Len(mainSubs) = Len(transSubs)
    /\ \A k \in 1..Len(mainSubs) :
          /\ hasTimes(mainSubs[k]) /\ hasTimes(transSubs[k])
          /\ timing(mainSubs[k]) = timing(transSubs[k])

strictlyIncreasing(seq) ==
    /\ \A k \in 1..Len(seq) : startMs(seq[k]) <= endMs(seq[k])
    /\ \A k \in 1..Len(seq) - 1 : startMs(seq[k]) < startMs(seq[k + 1])

markupAt(text) == {p \in 1..Len(text) : text[p] = MarkupOpen[1]}

\* what stands between the opening and the closing markup
secondaryPart(text) ==
    LET p == CHOOSE q \in markupAt(text) : \A r \in markupAt(text) : q <= r
    IN  SubSeq(text, p + 1, Len(text) - 1)

\* record k of the result carries the text of secondary entry j (0-based)
carries(k, j) ==
    /\ markupAt(mergedSubs[k].text) # {}
    /\ "text" \in DOMAIN transSubs[j + 1]
    /\ secondaryPart(mergedSubs[k].text) = replaceLineBreaks(transSubs[j + 1].text)

carriers(j) == {k \in 1..Len(mergedSubs) : carries(k, j)}

C7_SecondaryMergedAtMostOnce ==
    returned =>
    \A j \in 0..Len(transSubs) - 1 :
        /\ Cardinality(carriers(j)) <= 1
        /\ \A k \in carriers(j) : origin[k].trans = j

(***************************************************************************)
(* C7 amended: every returned record carries the text of at most one       *)
(* secondary entry, the best match of its primary entry; one secondary     *)
(* entry may be carried by several records; a secondary entry that is the  *)
(* best match of no primary entry is carried by none.                      *)
(***************************************************************************)
C7_OneSecondaryPerPrimary ==
    returned =>
    /\ \A k \in 1..Len(mergedSubs) :
          /\ Cardinality(markupAt(mergedSubs[k].text)) <= 1
          /\ origin[k].trans = -1 => markupAt(mergedSubs[k].text) = {}
          /\ origin[k].trans # -1 =>
                /\ carries(k, origin[k].trans)
                /\ qualifies(mainSubs[origin[k].main + 1],
                             transSubs[origin[k].trans + 1])
    /\ \A j \in 0..Len(transSubs) - 1 :
          \A k \in carriers(j) : origin[k].trans = j

C7_Witness ==
    /\ returned
    /\ Len(mergedSubs) = 2 /\ Len(transSubs) = 2
    /\ carries(1, 0) /\ carries(2, 0)
    /\ carriers(1) = {}

(***************************************************************************)
(* C8 as stated: a secondary entry whose interval equals the primary       *)
(* entry's satisfies isWithin and contains at once.                        *)
(***************************************************************************)
sameInterval(m, t) == startMs(m) = startMs(t) /\ endMs(m) = endMs(t)

scanning == pc = "scan" /\ i < Len(transSubs) /\ ~invalidEntry(transSub)

C8_EqualIntervalIsWithinAndContains ==
    (scanning /\ sameInterval(mainSub, transSub)) =>
        /\ isWithin(mainStartTime, mainEndTime, transStartTime, transEndTime)
        /\ contains(mainStartTime, mainEndTime, transStartTime, transEndTime)

(***************************************************************************)
(* C8 amended: such an entry satisfies isWithin and not contains, whose    *)
(* comparisons are strict; it is a potential match at difference 0; once   *)
(* it has been examined the best match is this entry or an earlier one     *)
(* with the same start time, and the returned record holds the text of     *)
(* its best match once.                                                    *)
(***************************************************************************)
C8_EqualIntervalIsWithinOnlyMergedOnce ==
    /\ (scanning /\ sameInterval(mainSub, transSub)) =>
          /\ isWithin(mainStartTime, mainEndTime, transStartTime, transEndTime)
          /\ ~contains(mainStartTime, mainEndTime, transStartTime, transEndTime)
          /\ isMatch
          /\ timeDiff(mainStartTime, transStartTime) = 0
    /\ pc \in {"scan", "emit"} =>
          \A j \in examined :
              sameInterval(mainSub, transSubs[j + 1]) =>
                  /\ bestMatchIndex # -1 /\ bestMatchIndex <= j
                  /\ smallestTimeDiff = 0
                  /\ startMs(transSubs[bestMatchIndex + 1]) = startMs(mainSub)
    /\ returned =>
          \A k \in 1..Len(mergedSubs) :
          origin[k].trans # -1 =>
              LET m == mainSubs[origin[k].main + 1]
                  t == transSubs[origin[k].trans + 1]
              IN  sameInterval(m, t) =>
                      /\ Cardinality(markupAt(mergedSubs[k].text)) = 1
                      /\ Len(mergedSubs[k].text)
                            <= Len(m.text) + Len(t.text) + 3

C8_Witness ==
    /\ returned
    /\ Len(mergedSubs) = 1 /\ Len(transSubs) = 2
    /\ origin[1].trans = 1
    /\ sameInterval(mainSubs[1], transSubs[2])
    /\ carries(1, 1)

(***************************************************************************)
(* C9: a matched record's text is the flattened primary text, one line     *)
(* break, the opening markup, the flattened secondary text and the closing *)
(* markup, where flattening turns each \r\n, \n or \r into one space; the  *)
(* text holds exactly one line break.                                      *)
(***************************************************************************)
\* flattening stated by positions: the \n of a \r\n pair goes, every other
\* line-break character becomes a space, everything else stays
flat(text) ==
    LET keep == SelectSeq(positions(text),
                    LAMBDA p : ~(text[p] = "\n" /\ p > 1 /\ text[p - 1] = "\r"))
    IN  [n \in 1..Len(keep) |->
            IF text[keep[n]] \in {"\n", "\r"} THEN " " ELSE text[keep[n]]]

C9_MatchedTextIsTwoFlatLines ==
    returned =>
    \A k \in 1..Len(mergedSubs) :
        origin[k].trans # -1 =>
            LET m == mainSubs[origin[k].main + 1]
                t == transSubs[origin[k].trans + 1]
            IN  /\ mergedSubs[k].text
                      = flat(m.text) \o <<"\n">>
                          \o <<"<font color=\"yellow\"><i>">> \o flat(t.text)
                          \o <<"</i></font>">>
                /\ Cardinality(lineBreaks(mergedSubs[k].text)) = 1

C9_Witness ==
    /\ returned
    /\ Len(mergedSubs) = 1
    /\ origin[1].trans = 0
    /\ mainSubs[1].text = <<"\r", "\n">>
    /\ transSubs[1].text = <<"\n", "\r">>
    /\ Len(mergedSubs[1].text) = 6

(***************************************************************************)
(* C10: an unmatched record's text is the flattened primary text with      *)
(* nothing added, and merging a result that matched nothing with an empty  *)
(* secondary sequence returns that result again.                           *)
(***************************************************************************)
C10_UnmatchedIsFlatAndIdempotent ==
    returned =>
    /\ \A k \in 1..Len(mergedSubs) :
          origin[k].trans = -1 =>
              /\ mergedSubs[k].text = flat(mainSubs[origin[k].main + 1].text)
              /\ markupAt(mainSubs[origin[k].main + 1].text) = {}
                    => markupAt(mergedSubs[k].text) = {}
    /\ (returned /\ call = 2) => mergedSubs = mainSubs

C10_Witness ==
    /\ returned /\ call = 2
    /\ Len(mergedSubs) = 1
    /\ mergedSubs[1].text = <<" ", " ">>

(***************************************************************************)
(* C11  mergeSubtitles returns normally for every pair of input sequences, *)
(* records without text included: no run of the call ends in an exception. *)
(* (Stated as claimed; lines 1776, 1777 and 1788 call .replace on the text *)
(* of a record that has both times, whether or not it has a text.)         *)
(***************************************************************************)
C11_NeverThrows == pc # "threw"

(***************************************************************************)
(* C13  A record whose time strings are present but do not parse takes     *)
(* part in matching as the interval [0, 0].  Claimed: such a primary       *)
(* record is still emitted, and such a secondary record is classified at   *)
(* time 0 by the scan of every primary record, wherever it sits.           *)
(***************************************************************************)
unparsable(sub) ==
    /\ Has(sub, "startTime") /\ Has(sub, "endTime")
    /\ sub.startTime.kind = "malformed" /\ sub.endTime.kind = "malformed"

unparsableAt == {j \in 0..Len(transSubs) - 1 : unparsable(transSubs[j + 1])}

emittedAsIs ==
    returned =>
        \A k \in 1..Len(mainSubs) :
            unparsable(mainSubs[k]) =>
                \E r \in 1..Len(origin) :
                    /\ origin[r].main = k - 1
                    /\ timing(mergedSubs[r]) = timing(mainSubs[k])

zeroQualifies ==
    potentialMatch(startMs(mainSub), endMs(mainSub), 0, 0, mergeThresholdMs)

MaxField == 1       \* hours, minutes, seconds, milliseconds range over 0..MaxField

\* Stands for JavaScript's NaN: below every value parseInt can return here.
NaN == -1000000000

Digits == <<"0", "1", "2", "3", "4", "5", "6", "7", "8", "9">>
isDigit(c) == \E k \in 1..10 : Digits[k] = c
digitValue(c) == (CHOOSE k \in 1..10 : Digits[k] = c) - 1

\* the pattern \d{2}:\d{2}:\d{2},\d{3} found at position p of s
matchesAt(s, p) ==
    /\ p + 11 <= Len(s)
    /\ \A k \in 0..11 :
          IF k = 2 \/ k = 5 THEN s[p + k] = ":"
          ELSE IF k = 8 THEN s[p + k] = ","
          ELSE isDigit(s[p + k])

\* /\d{2}:\d{2}:\d{2},\d{3}/.test(s): the pattern occurs somewhere in s
test(s) == \E p \in 1..Len(s) : matchesAt(s, p)

\* s.split(sep) for a one-character separator
RECURSIVE split(_, _)
split(s, sep) ==
    IF \A k \in 1..Len(s) : s[k] # sep THEN <<s>>
    ELSE LET p == CHOOSE k \in 1..Len(s) :
                      s[k] = sep /\ \A j \in 1..(k - 1) : s[j] # sep
         IN  <<SubSeq(s, 1, p - 1)>> \o split(SubSeq(s, p + 1, Len(s)), sep)

\* the value of the longest prefix of digits, NaN when there is none
RECURSIVE digitsPrefix(_, _, _)
digitsPrefix(s, acc, seen) ==
    IF s # <<>> /\ isDigit(s[1])
    THEN digitsPrefix(Tail(s), acc * 10 + digitValue(s[1]), TRUE)
    ELSE IF seen THEN acc ELSE NaN

RECURSIVE skipSpaces(_)
skipSpaces(s) == IF s # <<>> /\ s[1] = " " THEN skipSpaces(Tail(s)) ELSE s

\* parseInt(s, 10); an element beyond the end of an array is undefined
Undefined == <<"undefined">>
at(arr, k) == IF k < Len(arr) THEN arr[k + 1] ELSE Undefined

parseInt(s) ==
    IF s = Undefined THEN NaN
    ELSE LET t == skipSpaces(s) IN
         IF t # <<>> /\ t[1] = "-"
         THEN LET n == digitsPrefix(Tail(t), 0, FALSE) IN
              IF n = NaN THEN NaN ELSE 0 - n
         ELSE digitsPrefix(t, 0, FALSE)

parseTimeString(s) ==
    IF s = Undefined \/ s = <<>> \/ ~test(s)
    THEN 0
    ELSE LET parts == split(s, ":")
             secondsParts == split(at(parts, 2), ",")
             hours == parseInt(at(parts, 0))
             minutes == parseInt(at(parts, 1))
             seconds == parseInt(at(secondsParts, 0))
             milliseconds == parseInt(at(secondsParts, 1))
         IN  IF NaN \in {hours, minutes, seconds, milliseconds}
             THEN NaN
             ELSE (hours * 3600 + minutes * 60 + seconds) * 1000 + milliseconds

\* The call: one step from the argument to the returned value.
ParseTime ==
    /\ tpc = "call"
    /\ parsedMs' = parseTimeString(timeString)
    /\ tpc' = "returned"
    /\ UNCHANGED <<timeString, outsideTime>>

\* Arguments: fields printed at chosen widths, alone or next to one more
\* character, and the missing values.
RECURSIVE decimal(_)
decimal(n) == IF n < 10 THEN <<Digits[n + 1]>>
              ELSE decimal(n \div 10) \o <<Digits[(n % 10) + 1]>>

RECURSIVE padStart(_, _)
padStart(d, w) == IF Len(d) >= w THEN d ELSE padStart(<<"0">> \o d, w)

FieldValues == 0..MaxField \cup {59}
MilliValues == 0..MaxField \cup {999}
Junk == {"x", " ", "-"}

Formatted(f, w) ==
    padStart(decimal(f[1]), w[1]) \o <<":">> \o padStart(decimal(f[2]), w[2])
        \o <<":">> \o padStart(decimal(f[3]), w[3]) \o <<",">>
        \o padStart(decimal(f[4]), w[4])

Printed ==
    {Formatted(f, w) :
        f \in FieldValues \X FieldValues \X FieldValues \X MilliValues,
        w \in (1..3) \X (1..2) \X (1..2) \X (2..4)}

TimeStrings ==
    Printed \cup {<<c>> \o s : c \in Junk, s \in Printed}
            \cup {s \o <<c>> : c \in Junk, s \in Printed}
            \cup {<<>>, Undefined}

mergeIdle ==
    /\ mainSubs = <<>> /\ transSubs = <<>> /\ mergeThresholdMs = 0
    /\ callStart /\ call = 0

ParseInit ==
    /\ timeString \in TimeStrings
    /\ parsedMs = 0
    /\ tpc = "call"
    /\ mergeIdle /\ fetchIdle /\ handlerIdle /\ serveIdle /\ formatIdle /\ rateIdle /\ concurrentIdle /\ orderIdle /\ cacheIdle /\ awaitIdle

ParseNext == ParseTime

ParseSpec == ParseInit /\ [][ParseNext]_vars

(***************************************************************************)
(* C12  parseTimeToMs returns 0 for a missing value and for every string   *)
(* that is not exactly of the form HH:MM:SS,mmm, and                       *)
(* ((HH*60+MM)*60+SS)*1000+mmm for a string of that form.  (Stated as      *)
(* claimed; the unanchored pattern of line 1693 also accepts a string that *)
(* only contains the form.)                                                *)
(***************************************************************************)
exactForm(s) == s # Undefined /\ Len(s) = 12 /\ matchesAt(s, 1)

twoDigits(s, p) == digitValue(s[p]) * 10 + digitValue(s[p + 1])

valueOf(s) ==
    ((twoDigits(s, 1) * 60 + twoDigits(s, 4)) * 60 + twoDigits(s, 7)) * 1000
        + twoDigits(s, 10) * 10 + digitValue(s[12])

C12_ZeroUnlessExactForm ==
    tpc = "returned" =>
        IF exactForm(timeString)
        THEN parsedMs = valueOf(timeString)
        ELSE parsedMs = 0

(***************************************************************************)
(* fetchSubtitleContent(url, sourceFormat), lines 1531-1688, followed by   *)
(* the handler's test of the returned content (lines 2019-2023 and         *)
(* 2052-2056).  A buffer is a sequence of bytes, a text a sequence of      *)
(* characters.  The libraries (axios, pako, chardet, iconv-lite, subsrt,   *)
(* subtitle-converter) are outside the repository: each call either        *)
(* returns or throws, and what a decoder returns is computed byte by byte. *)
(***************************************************************************)
MaxBody == 2        \* longest ASCII body of a response, in bytes

Bom == <<"EF", "BB", "BF">>
GzipMagic == <<"1f", "8b">>
BomChar == "\\uFEFF"
ReplacementChar == "\\uFFFD"

startsWith(s, prefix) ==
    Len(s) >= Len(prefix) /\ SubSeq(s, 1, Len(prefix)) = prefix
endsWith(s, suffix) ==
    Len(s) >= Len(suffix)
        /\ SubSeq(s, Len(s) - Len(suffix) + 1, Len(s)) = suffix

\* A gzip member: the magic, the payload and a trailer.
GzipTrailer == <<"crc">>
gzip(bytes) == GzipMagic \o bytes \o GzipTrailer
isGzip(bytes) ==
    /\ Len(bytes) >= 3
    /\ startsWith(bytes, GzipMagic) /\ endsWith(bytes, GzipTrailer)
\* pako.ungzip(bytes), for a well-formed member
ungzip(bytes) == SubSeq(bytes, 3, Len(bytes) - 1)

\* line 1543
needsGunzip(u, bytes) ==
    \/ endsWith(u, <<".", "g", "z">>)
    \/ Len(bytes) > 2 /\ bytes[1] = "1f" /\ bytes[2] = "8b"

isAscii(b) == b \in {"a", "1f"}

RECURSIVE decodeUtf8(_)
decodeUtf8(bytes) ==
    IF bytes = <<>> THEN <<>>
    ELSE IF startsWith(bytes, Bom)
         THEN <<BomChar>> \o decodeUtf8(SubSeq(bytes, 4, Len(bytes)))
    ELSE IF isAscii(bytes[1]) THEN <<bytes[1]>> \o decodeUtf8(Tail(bytes))
    ELSE <<ReplacementChar>> \o decodeUtf8(Tail(bytes))

\* one character per byte: latin1, win1252, win1254, iso88599
singleByteChar(b) ==
    CASE b = "EF" -> "\\u00EF"
      [] b = "BB" -> "\\u00BB"
      [] b = "BF" -> "\\u00BF"
      [] b = "8b" -> "\\u008B"
      [] OTHER -> b

decodeSingleByte(bytes) == [k \in 1..Len(bytes) |-> singleByteChar(bytes[k])]

\* one character per pair of bytes; none of the pairs here is FF FE or FE FF
PairChar == "\\uXXXX"

RECURSIVE decodeUtf16(_)
decodeUtf16(bytes) ==
    IF bytes = <<>> THEN <<>>
    ELSE IF Len(bytes) = 1 THEN <<ReplacementChar>>
    ELSE <<PairChar>> \o decodeUtf16(SubSeq(bytes, 3, Len(bytes)))

\* any other codec iconv-lite knows: ASCII kept, the rest not mapped
decodeOther(bytes) ==
    [k \in 1..Len(bytes) |->
        IF isAscii(bytes[k]) THEN bytes[k] ELSE ReplacementChar]

decoded(bytes, encoding) ==
    CASE encoding = "utf8" -> decodeUtf8(bytes)
      [] encoding \in {"utf16le", "utf16be"} -> decodeUtf16(bytes)
      [] encoding \in {"win1254", "iso88599", "win1252", "latin1"} ->
             decodeSingleByte(bytes)
      [] OTHER -> decodeOther(bytes)

\* iconv-lite's own removal of a leading BOM, which it may or may not do
withoutLeadingBom(text) ==
    IF text # <<>> /\ text[1] = BomChar THEN Tail(text) ELSE text

\* variant: no check of the first character after decoding
keepFirstChar(text, encoding) == text

\* lines 1620-1623
stripBomChar(text, encoding) ==
    IF encoding = "utf8" /\ text # <<>> /\ text[1] = BomChar
    THEN Tail(text)
    ELSE text

\* what chardet.detect may return
Guesses == {"UTF-8", "ASCII", "windows-1254", "ISO-8859-9", "windows-1252",
            "UTF-16LE", "UTF-16BE", "Shift_JIS", "x-unknown"}

toLowerCase(name) ==
    CASE name = "UTF-8" -> "utf-8"
      [] name = "ASCII" -> "ascii"
      [] name = "ISO-8859-9" -> "iso-8859-9"
      [] name = "UTF-16LE" -> "utf-16le"
      [] name = "UTF-16BE" -> "utf-16be"
      [] name = "Shift_JIS" -> "shift_jis"
      [] name = "SRT" -> "srt"
      [] OTHER -> name

encodingExists(name) == name # "x-unknown"

\* lines 1566-1598
mapped(normalizedEncoding) ==
    CASE normalizedEncoding = "windows-1254" -> "win1254"
      [] normalizedEncoding = "iso-8859-9" -> "iso88599"
      [] normalizedEncoding = "windows-1252" -> "win1252"
      [] normalizedEncoding = "utf-16le" -> "utf16le"
      [] normalizedEncoding = "utf-16be" -> "utf16be"
      [] normalizedEncoding \in {"ascii", "us-ascii"} -> "utf8"
      [] normalizedEncoding = "utf-8" -> "utf8"
      [] OTHER -> IF encodingExists(normalizedEncoding)
                  THEN normalizedEncoding
                  ELSE "utf8"

\* what either converter returns for a text
asSrt(text) == <<"1", "\n">> \o text

\* leaves fetchSubtitleContent with a value
returns(value) == content' = value /\ fpc' = "returned"

\* lines 1534-1539: the response arrives
Get ==
    /\ fpc = "get"
    /\ responseData' = contentBuffer
    /\ fpc' = IF needsGunzip(url, contentBuffer) THEN "gunzip" ELSE "detect"
    /\ trace' = Append(trace, "get")
    /\ UNCHANGED <<url, sourceFormat, contentBuffer, detectedEncoding,
                   subtitleText, content, candidate, outsideFetch>>

\* lines 1534 and 1681-1687: the request fails or times out
GetFails ==
    /\ fpc = "get"
    /\ returns(NoContent)
    /\ contentBuffer' = <<>>
    /\ trace' = Append(trace, "getFailed")
    /\ UNCHANGED <<url, sourceFormat, responseData, detectedEncoding,
                   subtitleText, candidate, outsideFetch>>

\* lines 1545-1547
Gunzip ==
    /\ fpc = "gunzip"
    /\ isGzip(contentBuffer)
    /\ contentBuffer' = ungzip(contentBuffer)
    /\ fpc' = "detect"
    /\ trace' = Append(trace, "gunzip")
    /\ UNCHANGED <<url, sourceFormat, responseData, detectedEncoding,
                   subtitleText, content, candidate, outsideFetch>>

\* variant: goes on with the bytes as they came
GunzipFailsGoesOn ==
    /\ fpc = "gunzip"
    /\ ~isGzip(contentBuffer)
    /\ fpc' = "detect"
    /\ trace' = Append(trace, "gunzipFailed")
    /\ UNCHANGED <<url, sourceFormat, responseData, contentBuffer,
                   detectedEncoding, subtitleText, content, candidate,
                   outsideFetch>>

\* lines 1548-1551
GunzipFails ==
    /\ fpc = "gunzip"
    /\ ~isGzip(contentBuffer)
    /\ returns(NoContent)
    /\ trace' = Append(trace, "gunzipFailed")
    /\ UNCHANGED <<url, sourceFormat, responseData, contentBuffer,
                   detectedEncoding, subtitleText, candidate, outsideFetch>>

\* lines 1560-1599: chardet names an encoding
Detect ==
    /\ fpc = "detect"
    /\ \E rawDetectedEncoding \in Guesses :
          detectedEncoding' = mapped(toLowerCase(rawDetectedEncoding))
    /\ fpc' = "decode"
    /\ trace' = Append(trace, "detect")
    /\ UNCHANGED <<url, sourceFormat, responseData, contentBuffer,
                   subtitleText, content, candidate, outsideFetch>>

\* lines 1600-1607: chardet returns null
DetectNone ==
    /\ fpc = "detect"
    /\ contentBuffer' =
          IF Len(contentBuffer) > 3 /\ startsWith(contentBuffer, Bom)
          THEN SubSeq(contentBuffer, 4, Len(contentBuffer))
          ELSE contentBuffer
    /\ fpc' = "decode"
    /\ trace' = Append(trace, "detectNone")
    /\ UNCHANGED <<url, sourceFormat, responseData, detectedEncoding,
                   subtitleText, content, candidate, outsideFetch>>

\* lines 1608-1610: chardet throws
DetectFails ==
    /\ fpc = "detect"
    /\ fpc' = "decode"
    /\ trace' = Append(trace, "detectFailed")
    /\ UNCHANGED <<url, sourceFormat, responseData, contentBuffer,
                   detectedEncoding, subtitleText, content, candidate,
                   outsideFetch>>

afterDecoding == IF toLowerCase(sourceFormat) # "srt" THEN "convert" ELSE "return"

\* lines 1613-1623
Decode ==
    /\ fpc = "decode"
    /\ \E text \in {decoded(contentBuffer, detectedEncoding),
                    withoutLeadingBom(decoded(contentBuffer, detectedEncoding))} :
          subtitleText' = stripBomChar(text, detectedEncoding)
    /\ fpc' = afterDecoding
    /\ trace' = Append(trace, "decode")
    /\ UNCHANGED <<url, sourceFormat, responseData, contentBuffer,
                   detectedEncoding, content, candidate, outsideFetch>>

\* variant: a failed decode ends the call
DecodeFailsReturnsNull ==
    /\ fpc = "decode"
    /\ returns(NoContent)
    /\ trace' = Append(trace, "decodeFailed")
    /\ UNCHANGED <<url, sourceFormat, responseData, contentBuffer,
                   detectedEncoding, subtitleText, candidate, outsideFetch>>

\* lines 1625-1628: iconv.decode throws
DecodeFails ==
    /\ fpc = "decode"
    /\ fpc' = "latin1"
    /\ trace' = Append(trace, "decodeFailed")
    /\ UNCHANGED <<url, sourceFormat, responseData, contentBuffer,
                   detectedEncoding, subtitleText, content, candidate,
                   outsideFetch>>

\* lines 1629-1630
DecodeLatin1 ==
    /\ fpc = "latin1"
    /\ subtitleText' = decoded(contentBuffer, "latin1")
    /\ fpc' = afterDecoding
    /\ trace' = Append(trace, "latin1")
    /\ UNCHANGED <<url, sourceFormat, responseData, contentBuffer,
                   detectedEncoding, content, candidate, outsideFetch>>

\* lines 1631-1634
DecodeLatin1Fails ==
    /\ fpc = "latin1"
    /\ returns(NoContent)
    /\ trace' = Append(trace, "latin1Failed")
    /\ UNCHANGED <<url, sourceFormat, responseData, contentBuffer,
                   detectedEncoding, subtitleText, candidate, outsideFetch>>

\* lines 1643-1653 and 1675: subsrt converts
Convert ==
    /\ fpc = "convert"
    /\ subtitleText' = asSrt(subtitleText)
    /\ fpc' = "return"
    /\ trace' = Append(trace, "convert")
    /\ UNCHANGED <<url, sourceFormat, responseData, contentBuffer,
                   detectedEncoding, content, candidate, outsideFetch>>

\* lines 1654-1660: subsrt throws or returns nothing
ConvertFails ==
    /\ fpc = "convert"
    /\ fpc' = "fallback"
    /\ trace' = Append(trace, "convertFailed")
    /\ UNCHANGED <<url, sourceFormat, responseData, contentBuffer,
                   detectedEncoding, subtitleText, content, candidate,
                   outsideFetch>>

\* lines 1661-1665 and 1675: subtitle-converter converts
Fallback ==
    /\ fpc = "fallback"
    /\ subtitleText' = asSrt(subtitleText)
    /\ fpc' = "return"
    /\ trace' = Append(trace, "fallback")
    /\ UNCHANGED <<url, sourceFormat, responseData, contentBuffer,
                   detectedEncoding, content, candidate, outsideFetch>>

\* lines 1666-1673: subtitle-converter reports failure or throws
FallbackFails ==
    /\ fpc = "fallback"
    /\ returns(NoContent)
    /\ trace' = Append(trace, "fallbackFailed")
    /\ UNCHANGED <<url, sourceFormat, responseData, contentBuffer,
                   detectedEncoding, subtitleText, candidate, outsideFetch>>

\* lines 1678-1679
ReturnText ==
    /\ fpc = "return"
    /\ returns(subtitleText)
    /\ UNCHANGED <<url, sourceFormat, responseData, contentBuffer,
                   detectedEncoding, subtitleText, candidate, trace,
                   outsideFetch>>

\* !content, for null and for the empty string
falsy(value) == value = NoContent \/ value = <<>>

\* lines 2020-2023 and 2053-2056: the handler gives the candidate up
CallerSkips ==
    /\ fpc = "returned" /\ candidate = "pending"
    /\ falsy(content)
    /\ candidate' = "unusable"
    /\ UNCHANGED <<url, sourceFormat, responseData, contentBuffer,
                   detectedEncoding, subtitleText, content, trace, fpc,
                   outsideFetch>>

\* lines 2025-2026 and 2058-2059: the handler parses the content
CallerParses ==
    /\ fpc = "returned" /\ candidate = "pending"
    /\ ~falsy(content)
    /\ candidate' = "parsing"
    /\ UNCHANGED <<url, sourceFormat, responseData, contentBuffer,
                   detectedEncoding, subtitleText, content, trace, fpc,
                   outsideFetch>>

FetchNext ==
    \/ Get
    \/ GetFails
    \/ Gunzip
    \/ GunzipFails
    \/ Detect
    \/ DetectNone
    \/ DetectFails
    \/ Decode
    \/ DecodeFails
    \/ DecodeLatin1
    \/ DecodeLatin1Fails
    \/ Convert
    \/ ConvertFails
    \/ Fallback
    \/ FallbackFails
    \/ ReturnText
    \/ CallerSkips
    \/ CallerParses

\* Responses: ASCII bodies, with or without a leading BOM, plain or gzipped,
\* and bytes that start like a gzip member without being one.
Bodies == SeqsUpTo({"a"}, MaxBody)
PlainData == Bodies \cup {Bom \o b : b \in Bodies}
ResponseData ==
    PlainData \cup {gzip(d) : d \in PlainData}
              \cup {GzipMagic \o b : b \in Bodies}

Urls == {<<"a", ".", "s", "r", "t">>, <<"a", ".", "g", "z">>}
Formats == {"srt", "SRT", "sub"}

\* The call is made and the response is on its way.
FetchInit ==
    /\ url \in Urls
    /\ sourceFormat \in Formats
    /\ contentBuffer \in ResponseData
    /\ responseData = <<>>
    /\ detectedEncoding = "utf8"
    /\ subtitleText = <<>>
    /\ content = NoContent
    /\ candidate = "pending"
    /\ trace = <<>>
    /\ fpc = "get"
    /\ mergeIdle /\ timeIdle /\ handlerIdle /\ serveIdle /\ formatIdle /\ rateIdle /\ concurrentIdle /\ orderIdle /\ cacheIdle /\ awaitIdle

FetchSpec == FetchInit /\ [][FetchNext]_vars

\* stages of the trace
did(stage) == \E k \in 1..Len(trace) : trace[k] = stage
count(stage) == Cardinality({k \in 1..Len(trace) : trace[k] = stage})
lastStage == IF trace = <<>> THEN "none" ELSE trace[Len(trace)]

(***************************************************************************)
(* C14  When the URL ends in .gz or the bytes begin with 1f 8b, and the    *)
(* decompression fails, fetchSubtitleContent returns null at once: no      *)
(* detection, decoding or conversion follows, and the handler gives the    *)
(* candidate up instead of parsing it.                                     *)
(***************************************************************************)
C14_DecompressionFailureIsFatal ==
    did("gunzipFailed") =>
        /\ endsWith(url, <<".", "g", "z">>) \/ startsWith(responseData, GzipMagic)
        /\ fpc = "returned" /\ content = NoContent
        /\ lastStage = "gunzipFailed"
        /\ contentBuffer = responseData
        /\ detectedEncoding = "utf8" /\ subtitleText = <<>>
        /\ candidate # "parsing"

C14_Witness ==
    /\ did("gunzipFailed")
    /\ ~endsWith(url, <<".", "g", "z">>)
    /\ candidate = "unusable"

(***************************************************************************)
(* C15  A failed decode with the resolved codec is followed by exactly one *)
(* Latin-1 decode; the decoding stage gives up (null) exactly when that    *)
(* one fails too, and goes on with the Latin-1 text when it succeeds;      *)
(* Latin-1 is never tried after a decode that succeeded.                   *)
(***************************************************************************)
latin1Attempts == count("latin1") + count("latin1Failed")

C15_Latin1RetriedOnceAfterFailedDecode ==
    /\ latin1Attempts <= 1
    /\ count("decode") + count("decodeFailed") <= 1
    /\ did("decode") => latin1Attempts = 0
    /\ latin1Attempts = 1 => did("decodeFailed")
    /\ (did("decodeFailed") /\ fpc # "latin1") => latin1Attempts = 1
    /\ did("latin1Failed") =>
          fpc = "returned" /\ content = NoContent /\ lastStage = "latin1Failed"
    /\ (did("latin1") /\ fpc = "returned") =>
          IF toLowerCase(sourceFormat) = "srt"
          THEN content = decoded(contentBuffer, "latin1")
          ELSE \/ content = asSrt(decoded(contentBuffer, "latin1"))
               \/ content = NoContent /\ lastStage = "fallbackFailed"

C15_Witness ==
    /\ fpc = "returned"
    /\ did("decodeFailed") /\ did("latin1")
    /\ content = <<"\\u00EF", "\\u00BB", "\\u00BF", "a">>
    /\ candidate = "parsing"

(***************************************************************************)
(* C16  For bytes that are the UTF-8 byte-order mark followed by ASCII     *)
(* text, whatever the detection returns (a name, nothing, an error), the   *)
(* text fetchSubtitleContent returns holds no U+FEFF character; decoded as *)
(* UTF-8 it is the ASCII text itself.                                      *)
(***************************************************************************)
resolverInput ==
    IF did("gunzip") THEN ungzip(responseData) ELSE responseData

bomThenAscii(bytes) ==
    /\ startsWith(bytes, Bom)
    /\ \A k \in 4..Len(bytes) : isAscii(bytes[k])

C16_NoBomInReturnedText ==
    (fpc = "returned" /\ content # NoContent /\ bomThenAscii(resolverInput)) =>
        /\ \A k \in 1..Len(content) : content[k] # BomChar
        /\ (did("decode") /\ detectedEncoding = "utf8") =>
              LET ascii == SubSeq(resolverInput, 4, Len(resolverInput))
              IN  content = IF toLowerCase(sourceFormat) = "srt"
                            THEN ascii ELSE asSrt(ascii)

C16_Witness ==
    /\ fpc = "returned"
    /\ responseData = Bom \o <<"a">>
    /\ did("detect") /\ detectedEncoding = "utf8"
    /\ content = <<"a">>

(***************************************************************************)
(* The subtitles handler, lines 1926-2178, with fetchAndSelectSubtitle,    *)
(* lines 1421-1525.  A candidate carries, besides what the provider lists  *)
(* of it, its fate: what downloading, parsing, serialising and storing it  *)
(* will come to.  The fates of a main candidate are "fetchFails",          *)
(* "parseFails", "ok" and "okEmpty" (parsed, with no entry to merge);      *)
(* those of a translation candidate are "fetchFails", "parseFails",        *)
(* "formatFails", and, when a merged file is made, which stores take it:   *)
(* "bothUp", "vercelDown", "supabaseDown", "bothDown".                     *)
(***************************************************************************)
MaxMain == 2        \* longest list of main-language candidates
MaxTrans == 5       \* longest list of translation candidates with distinct URLs

MaxTranslations == 4
MAX_REQUESTS_PER_MINUTE == 40
SUBTITLE_CACHE_TTL_MS == 300000
CleanupIntervalMs == 60000

supportedFormats == {"dfxp", "scc", "srt", "ttml", "vtt", "ssa", "ass", "sub",
                     "sbv", "smi", "lrc", "json"}

\* lines 1476-1480
validFormat(subtitle) ==
    /\ subtitle.SubDownloadLink # ""
    /\ subtitle.SubFormat # ""
    /\ toLowerCase(subtitle.SubFormat) \in supportedFormats

\* lines 1489-1490 and 1511: parseInt(sub.SubDownloadsCnt, 10) || 0
downloadsOf(sub) ==
    LET n == parseInt(sub.SubDownloadsCnt) IN IF n = NaN THEN 0 ELSE n

\* variant: the order of the provider is kept
keepOrder(list) == list

\* lines 1488-1492: Array.prototype.sort, which is stable, by downloads descending
RECURSIVE insertByDownloads(_, _)
insertByDownloads(sub, sorted) ==
    IF sorted = <<>> THEN <<sub>>
    ELSE IF downloadsOf(sub) - downloadsOf(sorted[1]) > 0
         THEN <<sub>> \o sorted
    ELSE <<sorted[1]>> \o insertByDownloads(sub, Tail(sorted))

RECURSIVE sortByDownloads(_)
sortByDownloads(list) ==
    IF list = <<>> THEN <<>>
    ELSE insertByDownloads(list[Len(list)],
                           sortByDownloads(SubSeq(list, 1, Len(list) - 1)))

\* lines 1495-1513
asInfo(sub) ==
    [id |-> sub.IDSubtitleFile, url |-> sub.SubDownloadLink,
     format |-> sub.SubFormat, downloads |-> downloadsOf(sub),
     fate |-> sub.fate]

\* lines 1470-1524: null for a failed search, no result or no usable format
fetchAndSelectSubtitle(data) ==
    IF data = NoList \/ data = <<>> THEN NoList
    ELSE LET validFormatSubs == SelectSeq(data, validFormat) IN
         IF validFormatSubs = <<>> THEN NoList
         ELSE LET sorted == sortByDownloads(validFormatSubs)
              IN  [k \in 1..Len(sorted) |-> asInfo(sorted[k])]

\* variant: every candidate with a new URL is selected
RECURSIVE selectEveryUnique(_, _, _)
selectEveryUnique(list, selected, usedTransUrls) ==
    IF list = <<>> THEN selected
    ELSE IF list[1].url \notin usedTransUrls
         THEN selectEveryUnique(Tail(list), Append(selected, list[1]),
                                usedTransUrls \cup {list[1].url})
    ELSE selectEveryUnique(Tail(list), selected, usedTransUrls)

\* lines 1997-2006
RECURSIVE selectUnique(_, _, _)
selectUnique(list, selected, usedTransUrls) ==
    IF list = <<>> \/ Len(selected) >= MaxTranslations THEN selected
    ELSE IF list[1].url \notin usedTransUrls
         THEN selectUnique(Tail(list), Append(selected, list[1]),
                           usedTransUrls \cup {list[1].url})
    ELSE selectUnique(Tail(list), selected, usedTransUrls)

\* lines 2082-2149: the store that returns a URL, "none" when neither does
\* variant: Supabase is preferred when both stores return a URL
uploadedToSupabaseFirst(fate) ==
    IF supabase /\ fate \in {"bothUp", "vercelDown"} THEN "supabase"
    ELSE IF ~skipVercelBlob /\ fate \in {"bothUp", "supabaseDown"} THEN "vercel"
    ELSE "none"

uploadedTo(fate) ==
    IF ~skipVercelBlob /\ fate \in {"bothUp", "supabaseDown"} THEN "vercel"
    ELSE IF supabase /\ fate \in {"bothUp", "vercelDown"} THEN "supabase"
    ELSE "none"

\* lines 2084, 2101, 2136, 2152-2156
subtitleEntry(mainInfo, transInfo, store) ==
    [id |-> <<"merged", mainInfo.id, transInfo.id, store>>,
     url |-> <<store, transInfo.id>>,
     lang |-> "main+trans"]

emptyResponse(maxAge) == [subtitles |-> <<>>, cacheMaxAge |-> maxAge]

handlerInputs == <<request, mainResponse, transResponse, skipVercelBlob, supabase>>

\* The stages of the pipeline that a candidate goes through: lines 2019 and
\* 2052 (fetchSubtitleContent: download, then decoding), 2026 and 2059
\* (parseSrt), 2067 (mergeSubtitles: matching, then the merged text) and
\* 2075 (formatSrt).
\* variant: the text is parsed before it is decoded
ChainParsingFirst == <<"FETCHING", "PARSING", "DECODING", "ALIGNING",
                       "COMPOSING", "SERIALIZING">>

Chain == <<"FETCHING", "DECODING", "PARSING", "ALIGNING", "COMPOSING",
           "SERIALIZING">>

entered(stage, lang, id, ok) ==
    [stage |-> stage, lang |-> lang, id |-> id, ok |-> ok]

\* a candidate enters the first n stages and completes them, the last one
\* only if ok
through(lang, info, n, ok) ==
    stages \o [k \in 1..n |-> entered(Chain[k], lang, info.id, k < n \/ ok)]

searched(lang, list) ==
    Append(stages, entered("SEARCHING", lang, 0, list # NoList))

ended(stage) == Append(stages, entered(stage, "none", 0, TRUE))

\* lines 1944-1947
ReturnSameLanguages ==
    /\ hpc = "start" /\ request = "sameLanguages"
    /\ handlerResponse' = emptyResponse(3600)
    /\ hpc' = "done"
    /\ stages' = ended("FAILED")
    /\ UNCHANGED <<handlerInputs, uploads, mainSubInfoList, transSubInfoList,
                   selectedTransSubs, mainParsed, selectedMainSubInfo,
                   finalSubtitles, mainCursor, tIdx, fetchedContent,
                   outsideHandler>>

\* lines 1964-1967
ReturnNoImdbId ==
    /\ hpc = "start" /\ request = "noImdbId"
    /\ handlerResponse' = [subtitles |-> <<>>]
    /\ hpc' = "done"
    /\ stages' = ended("FAILED")
    /\ UNCHANGED <<handlerInputs, uploads, mainSubInfoList, transSubInfoList,
                   selectedTransSubs, mainParsed, selectedMainSubInfo,
                   finalSubtitles, mainCursor, tIdx, fetchedContent,
                   outsideHandler>>

\* lines 1980-1981
SearchMain ==
    /\ hpc = "start" /\ request = "ok"
    /\ mainSubInfoList' = fetchAndSelectSubtitle(mainResponse)
    /\ hpc' = "searchTrans"
    /\ stages' = searched("main", mainSubInfoList')
    /\ UNCHANGED <<handlerInputs, uploads, transSubInfoList, selectedTransSubs,
                   mainParsed, selectedMainSubInfo, finalSubtitles, mainCursor,
                   tIdx, handlerResponse, fetchedContent, outsideHandler>>

\* lines 1983-1984
SearchTrans ==
    /\ hpc = "searchTrans"
    /\ transSubInfoList' = fetchAndSelectSubtitle(transResponse)
    /\ hpc' = "lists"
    /\ stages' = searched("trans", transSubInfoList')
    /\ UNCHANGED <<handlerInputs, uploads, mainSubInfoList, selectedTransSubs,
                   mainParsed, selectedMainSubInfo, finalSubtitles, mainCursor,
                   tIdx, handlerResponse, fetchedContent, outsideHandler>>

\* lines 1987-1990
ReturnNoMainList ==
    /\ hpc = "lists"
    /\ mainSubInfoList = NoList
    /\ handlerResponse' = emptyResponse(60)
    /\ hpc' = "done"
    /\ stages' = ended("FAILED")
    /\ UNCHANGED <<handlerInputs, uploads, mainSubInfoList, transSubInfoList,
                   selectedTransSubs, mainParsed, selectedMainSubInfo,
                   finalSubtitles, mainCursor, tIdx, fetchedContent,
                   outsideHandler>>

\* lines 1991-1994
ReturnNoTransList ==
    /\ hpc = "lists"
    /\ mainSubInfoList # NoList /\ transSubInfoList = NoList
    /\ handlerResponse' = emptyResponse(60)
    /\ hpc' = "done"
    /\ stages' = ended("FAILED")
    /\ UNCHANGED <<handlerInputs, uploads, mainSubInfoList, transSubInfoList,
                   selectedTransSubs, mainParsed, selectedMainSubInfo,
                   finalSubtitles, mainCursor, tIdx, fetchedContent,
                   outsideHandler>>

\* lines 1996-2014
SelectTranslations ==
    /\ hpc = "lists"
    /\ mainSubInfoList # NoList /\ transSubInfoList # NoList
    /\ selectedTransSubs' = selectUnique(transSubInfoList, <<>>, {})
    /\ mainCursor' = 0
    /\ hpc' = "mainLoop"
    /\ stages' = stages
    /\ UNCHANGED <<handlerInputs, uploads, mainSubInfoList, transSubInfoList, mainParsed,
                   selectedMainSubInfo, finalSubtitles, tIdx, handlerResponse,
                   fetchedContent, outsideHandler>>

mainSubInfo == mainSubInfoList[mainCursor + 1]
transSubInfo == selectedTransSubs[tIdx + 1]

inMainLoop == hpc = "mainLoop" /\ mainCursor < Len(mainSubInfoList)
inTransLoop == hpc = "transLoop" /\ tIdx < Len(selectedTransSubs)

downloaded(lang, info) ==
    Append(fetchedContent, [lang |-> lang, id |-> info.id])

\* lines 2016-2023
MainFetchFails ==
    /\ inMainLoop
    /\ mainSubInfo.fate = "fetchFails"
    /\ fetchedContent' = downloaded("main", mainSubInfo)
    /\ mainCursor' = mainCursor + 1
    /\ stages' = through("main", mainSubInfo, 1, FALSE)
    /\ UNCHANGED <<handlerInputs, uploads, mainSubInfoList, transSubInfoList,
                   selectedTransSubs, mainParsed, selectedMainSubInfo,
                   finalSubtitles, tIdx, handlerResponse, hpc, outsideHandler>>

\* lines 2016-2030
MainParseFails ==
    /\ inMainLoop
    /\ mainSubInfo.fate = "parseFails"
    /\ fetchedContent' = downloaded("main", mainSubInfo)
    /\ mainCursor' = mainCursor + 1
    /\ stages' = through("main", mainSubInfo, 3, FALSE)
    /\ UNCHANGED <<handlerInputs, uploads, mainSubInfoList, transSubInfoList,
                   selectedTransSubs, mainParsed, selectedMainSubInfo,
                   finalSubtitles, tIdx, handlerResponse, hpc, outsideHandler>>

\* lines 2016-2036 and 2045-2046
MainSucceeds ==
    /\ inMainLoop
    /\ mainSubInfo.fate \in {"ok", "okEmpty"}
    /\ fetchedContent' = downloaded("main", mainSubInfo)
    /\ mainParsed' = [from |-> mainSubInfo.id, empty |-> mainSubInfo.fate = "okEmpty"]
    /\ selectedMainSubInfo' = mainSubInfo
    /\ tIdx' = 0
    /\ hpc' = "transLoop"
    /\ stages' = through("main", mainSubInfo, 3, TRUE)
    /\ UNCHANGED <<handlerInputs, uploads, mainSubInfoList, transSubInfoList,
                   selectedTransSubs, finalSubtitles, mainCursor,
                   handlerResponse, outsideHandler>>

\* variant: goes on to the translations without a main track
NoMainParsedGoesOn ==
    /\ hpc = "mainLoop" /\ mainCursor >= Len(mainSubInfoList)
    /\ tIdx' = 0
    /\ hpc' = "transLoop"
    /\ stages' = stages
    /\ UNCHANGED <<handlerInputs, uploads, mainSubInfoList, transSubInfoList,
                   selectedTransSubs, mainParsed, selectedMainSubInfo,
                   finalSubtitles, mainCursor, handlerResponse, fetchedContent,
                   outsideHandler>>

\* lines 2039-2042
ReturnNoMainParsed ==
    /\ hpc = "mainLoop" /\ mainCursor >= Len(mainSubInfoList)
    /\ handlerResponse' = emptyResponse(60)
    /\ hpc' = "done"
    /\ stages' = ended("FAILED")
    /\ UNCHANGED <<handlerInputs, uploads, mainSubInfoList, transSubInfoList,
                   selectedTransSubs, mainParsed, selectedMainSubInfo,
                   finalSubtitles, mainCursor, tIdx, fetchedContent,
                   outsideHandler>>

\* a translation candidate that adds nothing to the result
skipped(n, ok) ==
    /\ fetchedContent' = downloaded("trans", transSubInfo)
    /\ stages' = through("trans", transSubInfo, n, ok)
    /\ tIdx' = tIdx + 1
    /\ UNCHANGED <<handlerInputs, uploads, mainSubInfoList, transSubInfoList,
                   selectedTransSubs, mainParsed, selectedMainSubInfo,
                   finalSubtitles, mainCursor, handlerResponse, hpc,
                   outsideHandler>>

\* variant: a failed download ends the loop
TransFetchFailsStops ==
    /\ inTransLoop
    /\ transSubInfo.fate = "fetchFails"
    /\ fetchedContent' = downloaded("trans", transSubInfo)
    /\ tIdx' = Len(selectedTransSubs)
    /\ stages' = through("trans", transSubInfo, 1, FALSE)
    /\ UNCHANGED <<handlerInputs, uploads, mainSubInfoList, transSubInfoList,
                   selectedTransSubs, mainParsed, selectedMainSubInfo,
                   finalSubtitles, mainCursor, handlerResponse, hpc,
                   outsideHandler>>

\* lines 2052-2056
TransFetchFails ==
    /\ inTransLoop
    /\ transSubInfo.fate = "fetchFails"
    /\ skipped(1, FALSE)

\* variant: what could not be parsed is merged
TransParseFailsMerges ==
    /\ inTransLoop
    /\ transSubInfo.fate = "parseFails"
    /\ fetchedContent' = downloaded("trans", transSubInfo)
    /\ stages' = through("trans", transSubInfo, 3, FALSE)
                     \o <<entered("ALIGNING", "trans", transSubInfo.id, TRUE)>>
    /\ tIdx' = tIdx + 1
    /\ UNCHANGED <<handlerInputs, uploads, mainSubInfoList, transSubInfoList,
                   selectedTransSubs, mainParsed, selectedMainSubInfo,
                   finalSubtitles, mainCursor, handlerResponse, hpc,
                   outsideHandler>>

\* lines 2059-2063
TransParseFails ==
    /\ inTransLoop
    /\ transSubInfo.fate = "parseFails"
    /\ skipped(3, FALSE)

\* lines 2067-2071: the merge of a main track without entries is empty
TransMergeEmpty ==
    /\ inTransLoop
    /\ transSubInfo.fate \notin {"fetchFails", "parseFails"}
    /\ mainParsed.empty
    /\ skipped(5, FALSE)

\* lines 2075-2079
TransFormatFails ==
    /\ inTransLoop
    /\ transSubInfo.fate = "formatFails"
    /\ ~mainParsed.empty
    /\ skipped(6, FALSE)

\* lines 2086-2139: put to Vercel Blob unless skipped, then the upload to
\* Supabase when no URL came back and a client is configured
attempted(info) ==
    LET vercel == IF skipVercelBlob THEN <<>>
                  ELSE <<[id |-> info.id, store |-> "vercel",
                          url |-> info.fate \in {"bothUp", "supabaseDown"}]>>
        uploadUrl == vercel # <<>> /\ vercel[1].url
    IN  IF ~uploadUrl /\ supabase
        THEN vercel \o <<[id |-> info.id, store |-> "supabase",
                          url |-> info.fate \in {"bothUp", "vercelDown"}]>>
        ELSE vercel

stores(fate) == fate \in {"bothUp", "vercelDown", "supabaseDown", "bothDown"}

\* lines 2081-2159: neither store returned a URL
TransUploadFails ==
    /\ inTransLoop
    /\ stores(transSubInfo.fate)
    /\ ~mainParsed.empty
    /\ uploadedTo(transSubInfo.fate) = "none"
    /\ uploads' = uploads \o attempted(transSubInfo)
    /\ fetchedContent' = downloaded("trans", transSubInfo)
    /\ stages' = through("trans", transSubInfo, 6, TRUE)
    /\ tIdx' = tIdx + 1
    /\ UNCHANGED <<handlerInputs, mainSubInfoList, transSubInfoList,
                   selectedTransSubs, mainParsed, selectedMainSubInfo,
                   finalSubtitles, mainCursor, handlerResponse, hpc,
                   outsideHandler>>

\* lines 2081-2156
TransStored ==
    /\ inTransLoop
    /\ stores(transSubInfo.fate)
    /\ ~mainParsed.empty
    /\ uploadedTo(transSubInfo.fate) # "none"
    /\ finalSubtitles' = Append(finalSubtitles,
           subtitleEntry(selectedMainSubInfo, transSubInfo,
                         uploadedTo(transSubInfo.fate)))
    /\ fetchedContent' = downloaded("trans", transSubInfo)
    /\ tIdx' = tIdx + 1
    /\ stages' = through("trans", transSubInfo, 6, TRUE)
    /\ uploads' = uploads \o attempted(transSubInfo)
    /\ UNCHANGED <<handlerInputs, mainSubInfoList, transSubInfoList,
                   selectedTransSubs, mainParsed, selectedMainSubInfo,
                   mainCursor, handlerResponse, hpc, outsideHandler>>

\* lines 2163-2172
ReturnResults ==
    /\ hpc = "transLoop" /\ tIdx >= Len(selectedTransSubs)
    /\ handlerResponse' = [subtitles |-> finalSubtitles,
                           cacheMaxAge |-> 6 * 3600,
                           staleRevalidate |-> 24 * 3600]
    /\ hpc' = "done"
    /\ stages' = ended(IF finalSubtitles = <<>> THEN "FAILED" ELSE "DONE")
    /\ UNCHANGED <<handlerInputs, uploads, mainSubInfoList, transSubInfoList,
                   selectedTransSubs, mainParsed, selectedMainSubInfo,
                   finalSubtitles, mainCursor, tIdx, fetchedContent,
                   outsideHandler>>

inTry ==
    \/ hpc = "start" /\ request = "ok"
    \/ hpc \in {"searchTrans", "lists", "mainLoop", "transLoop"}

\* variant: the tracks made before the exception are returned
ThrowsWithTracks ==
    /\ inTry
    /\ handlerResponse' = [subtitles |-> finalSubtitles, cacheMaxAge |-> 60]
    /\ stages' = ended("FAILED")
    /\ hpc' = "done"
    /\ UNCHANGED <<handlerInputs, uploads, mainSubInfoList, transSubInfoList,
                   selectedTransSubs, mainParsed, selectedMainSubInfo,
                   finalSubtitles, mainCursor, tIdx, fetchedContent,
                   outsideHandler>>

\* lines 1978 and 2174-2177: an exception raised inside the try block
Throws ==
    /\ inTry
    /\ handlerResponse' = emptyResponse(60)
    /\ stages' = ended("FAILED")
    /\ hpc' = "done"
    /\ UNCHANGED <<handlerInputs, uploads, mainSubInfoList, transSubInfoList,
                   selectedTransSubs, mainParsed, selectedMainSubInfo,
                   finalSubtitles, mainCursor, tIdx, fetchedContent,
                   outsideHandler>>

HandlerNext ==
    \/ ReturnSameLanguages
    \/ ReturnNoImdbId
    \/ SearchMain
    \/ SearchTrans
    \/ ReturnNoMainList
    \/ ReturnNoTransList
    \/ SelectTranslations
    \/ MainFetchFails
    \/ MainParseFails
    \/ MainSucceeds
    \/ ReturnNoMainParsed
    \/ TransFetchFails
    \/ TransParseFails
    \/ TransMergeEmpty
    \/ TransFormatFails
    \/ TransUploadFails
    \/ TransStored
    \/ ReturnResults
    \/ Throws

(***************************************************************************)
(* The requests the handler is run on.  A record of a provider's response  *)
(* is identified by its place in the response.                             *)
(***************************************************************************)
MainFates == {"fetchFails", "parseFails", "ok", "okEmpty"}
TransFates == {"fetchFails", "parseFails", "formatFails", "bothUp",
               "vercelDown", "supabaseDown", "bothDown"}
DownloadCounts == {<<"1">>, <<"2">>, <<"x">>}

Listed(k, link, format, downloads, fate) ==
    [IDSubtitleFile |-> k, SubDownloadLink |-> link, SubFormat |-> format,
     SubDownloadsCnt |-> downloads, fate |-> fate]

OneMain(fate) == <<Listed(1, "m1", "srt", <<"1">>, fate)>>
OneTrans(fate) == <<Listed(1, "t1", "srt", <<"1">>, fate)>>

mainLink(k) == IF k = 1 THEN "m1" ELSE IF k = 2 THEN "m2" ELSE IF k = 3 THEN "m3" ELSE "m4"
transLink(k) ==
    CASE k = 1 -> "t1" [] k = 2 -> "t2" [] k = 3 -> "t3" [] k = 4 -> "t4"
      [] k = 5 -> "t5" [] k = 6 -> "t6" [] k = 7 -> "t7" [] OTHER -> "t8"

\* a main list of n records, of formats f, download counts c and fates g
MainResponse(n, f, c, g) ==
    [k \in 1..n |-> Listed(k, mainLink(k), f[k], c[k], g[k])]

\* a translation list of n records of distinct URLs and of fates g
DistinctTransResponse(n, g) ==
    [k \in 1..n |-> Listed(k, transLink(k), "srt", <<"1">>, g[k])]

\* a translation list where the records marked in r have the URL of the first
RepeatingTransResponse(n, r, c) ==
    [k \in 1..n |->
        Listed(k, IF r[k] THEN "t1" ELSE transLink(k), "srt", c[k], "bothUp")]

\* a translation list of URLs u, download counts c and fates g
FatedTransResponse(n, u, c, g) ==
    [k \in 1..n |-> Listed(k, u[k], "srt", c[k], g[k])]

handlerStart ==
    /\ mainSubInfoList = NoList /\ transSubInfoList = NoList
    /\ selectedTransSubs = <<>>
    /\ mainParsed = NullSub /\ selectedMainSubInfo = NullSub
    /\ finalSubtitles = <<>>
    /\ mainCursor = 0 /\ tIdx = 0
    /\ handlerResponse = NullSub
    /\ fetchedContent = <<>>
    /\ stages = <<>> /\ uploads = <<>>
    /\ hpc = "start"

\* main lists of every ranking, format and fate
InitMains ==
    /\ request = "ok"
    /\ \/ mainResponse \in {NoList, <<>>}
       \/ \E n \in 1..MaxMain :
            \E f \in [1..n -> {"SRT", "doc", ""}], c \in [1..n -> DownloadCounts],
               g \in [1..n -> MainFates] :
                mainResponse = MainResponse(n, f, c, g)
    /\ transResponse = OneTrans("bothUp")
    /\ skipVercelBlob = FALSE /\ supabase = TRUE

\* translation lists of distinct URLs, longer than what is selected
InitDistinct ==
    /\ request = "ok"
    /\ mainResponse = OneMain("ok")
    /\ \E n \in 1..MaxTrans :
         \E g \in [1..n -> {"fetchFails", "parseFails", "bothUp"}] :
             transResponse = DistinctTransResponse(n, g)
    /\ skipVercelBlob = FALSE /\ supabase = TRUE

\* translation lists with repeated URLs
InitRepeating ==
    /\ request = "ok"
    /\ mainResponse = OneMain("ok")
    /\ \E n \in 1..(MaxTrans + 1) :
         \E r \in [1..n -> BOOLEAN], c \in [1..n -> {<<"1">>, <<"2">>}] :
             transResponse = RepeatingTransResponse(n, r, c)
    /\ skipVercelBlob = FALSE /\ supabase = TRUE

\* short translation lists of every fate, under every configuration
InitFated ==
    /\ request = "ok"
    /\ mainResponse \in {OneMain("ok"), OneMain("okEmpty"), OneMain("parseFails")}
    /\ \/ transResponse \in {NoList, <<>>}
       \/ \E n \in 1..2 :
            \E u \in [1..n -> {"t1", "t2"}], c \in [1..n -> {<<"1">>, <<"2">>}],
               g \in [1..n -> TransFates] :
                transResponse = FatedTransResponse(n, u, c, g)
    /\ skipVercelBlob \in BOOLEAN /\ supabase \in BOOLEAN

InitRejected ==
    /\ request \in {"sameLanguages", "noImdbId"}
    /\ mainResponse = OneMain("ok")
    /\ transResponse = OneTrans("bothUp")
    /\ skipVercelBlob \in BOOLEAN /\ supabase \in BOOLEAN

HandlerInit ==
    /\ \/ InitMains
       \/ InitDistinct
       \/ InitRepeating
       \/ InitFated
       \/ InitRejected
    /\ handlerStart
    /\ mergeIdle /\ timeIdle /\ fetchIdle /\ serveIdle /\ formatIdle /\ rateIdle /\ concurrentIdle /\ orderIdle /\ cacheIdle /\ awaitIdle

HandlerSpec == HandlerInit /\ [][HandlerNext]_vars

(***************************************************************************)
(* Claims about the handler.                                               *)
(***************************************************************************)
\* the handler returned at lines 2168-2172
returnedResults == hpc = "done" /\ "staleRevalidate" \in DOMAIN handlerResponse

fetched(lang, id) ==
    \E k \in 1..Len(fetchedContent) :
        fetchedContent[k] = [lang |-> lang, id |-> id]

\* the usable records of the main response, by their place in it
mainCandidates ==
    IF mainResponse = NoList THEN {}
    ELSE {k \in 1..Len(mainResponse) : validFormat(mainResponse[k])}

\* a is ranked before b: more downloads, or as many and listed earlier
rankedBefore(a, b) ==
    \/ downloadsOf(mainResponse[a]) > downloadsOf(mainResponse[b])
    \/ /\ downloadsOf(mainResponse[a]) = downloadsOf(mainResponse[b])
       /\ a < b

viable(k) == mainResponse[k].fate \in {"ok", "okEmpty"}

mainChosen == selectedMainSubInfo # NullSub

\* C17: the main track of every merge is the first candidate, by downloads
\* descending, that is fetched and parsed: the candidates ranked before it
\* were tried and failed, and none ranked after it is fetched.
C17_FirstViablePrimaryWins ==
    /\ mainChosen =>
          /\ selectedMainSubInfo.id \in mainCandidates
          /\ viable(selectedMainSubInfo.id)
          /\ mainParsed.from = selectedMainSubInfo.id
          /\ fetched("main", selectedMainSubInfo.id)
          /\ \A k \in mainCandidates :
                /\ rankedBefore(k, selectedMainSubInfo.id)
                      => ~viable(k) /\ fetched("main", k)
                /\ rankedBefore(selectedMainSubInfo.id, k)
                      => ~fetched("main", k)
    /\ \A j \in 1..Len(finalSubtitles) :
          mainChosen /\ finalSubtitles[j].id[2] = selectedMainSubInfo.id

\* a merged track is returned whose main candidate was listed first, after
\* the more downloaded candidate listed second had failed
C17_Witness ==
    /\ returnedResults
    /\ mainChosen
    /\ Len(handlerResponse.subtitles) > 0
    /\ selectedMainSubInfo.id = 1
    /\ 2 \in mainCandidates
    /\ rankedBefore(2, 1)
    /\ fetched("main", 2)

\* every usable main candidate fails to be fetched or parsed
allMainFail ==
    /\ request = "ok"
    /\ mainCandidates # {}
    /\ \A k \in mainCandidates : ~viable(k)

transFetched ==
    \E k \in 1..Len(fetchedContent) : fetchedContent[k].lang = "trans"

\* C18: when every main candidate fails, the handler returns an empty list
\* of subtitles and no translation candidate is fetched, merged or stored.
C18_NoPrimaryNoRequest ==
    allMainFail =>
        /\ ~mainChosen
        /\ hpc # "transLoop"
        /\ ~transFetched
        /\ finalSubtitles = <<>>
        /\ hpc = "done" => handlerResponse = emptyResponse(60)

\* two main candidates were tried and failed, translations were listed and
\* selected, and the handler has returned
C18_Witness ==
    /\ allMainFail
    /\ hpc = "done"
    /\ Cardinality(mainCandidates) >= 2
    /\ \A k \in mainCandidates : fetched("main", k)
    /\ selectedTransSubs # <<>>

isTrans(entry) == entry.lang = "trans"
transAttempts == SelectSeq(fetchedContent, isTrans)

\* the ranked translation candidates that are the first of their URL
firstOfUrl(k) ==
    \A j \in 1..(k - 1) : transSubInfoList[j].url # transSubInfoList[k].url

firstsBefore(k) == {j \in 1..(k - 1) : firstOfUrl(j)}

\* the first four of them
eligible ==
    IF transSubInfoList = NoList THEN {}
    ELSE {k \in 1..Len(transSubInfoList) :
             firstOfUrl(k) /\ Cardinality(firstsBefore(k)) < 4}

nthEligible(n) ==
    CHOOSE k \in eligible : Cardinality({j \in eligible : j < k}) = n - 1

\* C19: the translation candidates attempted are the first four of distinct
\* URLs in ranked order, each once and in that order, whatever becomes of
\* them; so at most four are attempted and at most four tracks are returned.
C19_AtMostFourSecondaries ==
    /\ Len(transAttempts) <= 4
    /\ Len(finalSubtitles) <= 4
    /\ Len(transAttempts) <= Cardinality(eligible)
    /\ \A n \in 1..Len(transAttempts) :
          transAttempts[n].id = transSubInfoList[nthEligible(n)].id
    /\ returnedResults => Len(transAttempts) = Cardinality(eligible)

\* five candidates of distinct URLs are listed, one of the first four fails,
\* and the handler returns after four attempts
C19_Witness ==
    /\ returnedResults
    /\ mainChosen
    /\ Len(transSubInfoList) >= 5
    /\ \A k \in 1..Len(transSubInfoList) : firstOfUrl(k)
    /\ Len(transAttempts) = 4
    /\ Len(handlerResponse.subtitles) < 4
    /\ transSubInfoList[5].fate = "bothUp"

idsOf(list) == [k \in 1..Len(list) |-> list[k].id]
trackSources == [j \in 1..Len(finalSubtitles) |-> finalSubtitles[j].id[3]]

fetchedAndParsed(info) == info.fate \notin {"fetchFails", "parseFails"}

\* the candidate is fetched and parsed, its merge has entries and is
\* serialised, and a store that is tried returns a URL for it
yieldsTrack(info) ==
    /\ ~mainParsed.empty
    /\ \/ info.fate = "bothUp" /\ (~skipVercelBlob \/ supabase)
       \/ info.fate = "vercelDown" /\ supabase
       \/ info.fate = "supabaseDown" /\ ~skipVercelBlob

processed == SubSeq(selectedTransSubs, 1, tIdx)

\* C20 as stated: the result has one track for each selected candidate that
\* was fetched, decoded and parsed, in rank order.
C20_OneTrackPerParsedCandidate ==
    returnedResults =>
        trackSources = idsOf(SelectSeq(selectedTransSubs, fetchedAndParsed))

\* C20: a candidate that fails is skipped and the loop goes on to every
\* selected candidate, each attempted once in rank order; the tracks are
\* those of the candidates that were fetched, parsed, merged to at least one
\* entry, serialised and stored, in rank order.
C20_FailuresSkippedTracksInOrder ==
    mainChosen =>
        /\ transAttempts =
              [k \in 1..tIdx |-> [lang |-> "trans", id |-> selectedTransSubs[k].id]]
        /\ trackSources = idsOf(SelectSeq(processed, yieldsTrack))
        /\ returnedResults =>
              /\ tIdx = Len(selectedTransSubs)
              /\ handlerResponse.subtitles = finalSubtitles

\* the first selected candidate failed to be fetched or parsed and a later
\* one gave a track of the result
C20_Witness ==
    /\ returnedResults
    /\ mainChosen
    /\ Len(selectedTransSubs) >= 3
    /\ ~fetchedAndParsed(selectedTransSubs[1])
    /\ yieldsTrack(selectedTransSubs[2])
    /\ ~fetchedAndParsed(selectedTransSubs[3])
    /\ Len(handlerResponse.subtitles) >= 1
    /\ trackSources[1] = selectedTransSubs[2].id

(***************************************************************************)
(* The first variant, lines 1-636: the handler only searches both          *)
(* languages and answers with a link to the serve route (lines 465-527);   *)
(* the route (lines 591-608) calls generateMergedSubtitle (lines 411-462), *)
(* which searches again, downloads, parses, merges and serialises one      *)
(* candidate of each language.  The two searches, and then the two         *)
(* downloads, are started together and awaited with Promise.all.  The      *)
(* handler of the second variant (lines 1148-1265) runs the same steps     *)
(* itself.                                                                 *)
(***************************************************************************)
Languages == {"main", "trans"}

both(status) == [l \in Languages |-> status]

entering(stage, lang) == entered(stage, lang, 0, TRUE)

serveLink ==
    [subtitles |-> <<[id |-> <<"strelingo", "main", "trans">>,
                      url |-> <<"serve", "subtitle.srt">>,
                      lang |-> "main+trans"]>>,
     cacheMaxAge |-> 6 * 3600, staleRevalidate |-> 24 * 3600]

answer(status, body) == [status |-> status, body |-> body]

\* lines 491-494
CheckLaunch ==
    /\ spc = "handler"
    /\ metadata' = both("pending")
    /\ progress' = progress \o <<entering("SEARCHING", "main"),
                                 entering("SEARCHING", "trans")>>
    /\ spc' = "checking"
    /\ UNCHANGED <<contents, listed, served, outsideServe>>

\* lines 109-167: a search ends with a candidate or with null
SearchCompletes(l) ==
    /\ spc \in {"checking", "searching"}
    /\ metadata[l] = "pending"
    /\ \E result \in {"found", "null"} :
           metadata' = [metadata EXCEPT ![l] = result]
    /\ UNCHANGED <<spc, contents, listed, served, progress, outsideServe>>

settled(status) == \A l \in Languages : status[l] # "pending"
missing(status) == \E l \in Languages : status[l] = "null"

\* lines 496-499
CheckFails ==
    /\ spc = "checking"
    /\ settled(metadata) /\ missing(metadata)
    /\ listed' = emptyResponse(300)
    /\ progress' = Append(progress, entering("FAILED", "none"))
    /\ spc' = "done"
    /\ UNCHANGED <<metadata, contents, served, outsideServe>>

\* lines 501-521
CheckSucceeds ==
    /\ spc = "checking"
    /\ settled(metadata) /\ ~missing(metadata)
    /\ listed' = serveLink
    /\ spc' = "listed"
    /\ UNCHANGED <<metadata, contents, served, progress, outsideServe>>

\* lines 523-526: an exception raised inside the handler's try block
CheckThrows ==
    /\ spc = "checking"
    /\ listed' = emptyResponse(60)
    /\ progress' = Append(progress, entering("FAILED", "none"))
    /\ spc' = "done"
    /\ UNCHANGED <<metadata, contents, served, outsideServe>>

\* lines 594-597: a request to the route without its parameters
ServeBadRequest ==
    /\ spc = "listed"
    /\ served' = answer(400, "Missing required parameters")
    /\ spc' = "done"
    /\ UNCHANGED <<metadata, contents, listed, progress, outsideServe>>

\* variant: the search of the translation is not started with the other
GenerateLaunchMainOnly ==
    /\ spc = "listed"
    /\ metadata' = [both("none") EXCEPT !["main"] = "pending"]
    /\ progress' = Append(progress, entering("SEARCHING", "main"))
    /\ spc' = "searching"
    /\ UNCHANGED <<contents, listed, served, outsideServe>>

\* lines 599 and 418-421
GenerateLaunch ==
    /\ spc = "listed"
    /\ metadata' = both("pending")
    /\ progress' = progress \o <<entering("SEARCHING", "main"),
                                 entering("SEARCHING", "trans")>>
    /\ spc' = "searching"
    /\ UNCHANGED <<contents, listed, served, outsideServe>>

\* lines 604-607: generateMergedSubtitle threw
serveFails ==
    /\ served' = answer(500, "Error generating subtitle")
    /\ spc' = "done"
    /\ UNCHANGED <<metadata, contents, listed, outsideServe>>

\* lines 422-424
SearchesFail ==
    /\ spc = "searching"
    /\ settled(metadata) /\ missing(metadata)
    /\ progress' = Append(progress, entering("FAILED", "none"))
    /\ serveFails

\* lines 427-430
DownloadsLaunch ==
    /\ spc = "searching"
    /\ settled(metadata) /\ ~missing(metadata)
    /\ contents' = both("pending")
    /\ progress' = progress \o <<entering("FETCHING", "main"),
                                 entering("FETCHING", "trans")>>
    /\ spc' = "fetching"
    /\ UNCHANGED <<metadata, listed, served, outsideServe>>

\* lines 173-290: the response does not come, or it comes and is decoded
\* or cannot be
DownloadCompletes(l) ==
    /\ spc = "fetching"
    /\ contents[l] = "pending"
    /\ \E outcome \in {"unreachable", "undecodable", "text"} :
          /\ contents' = [contents EXCEPT ![l] =
                             IF outcome = "text" THEN "text" ELSE "null"]
          /\ progress' = IF outcome = "unreachable" THEN progress
                         ELSE Append(progress, entering("DECODING", l))
    /\ UNCHANGED <<spc, metadata, listed, served, outsideServe>>

\* lines 431-433
DownloadsFail ==
    /\ spc = "fetching"
    /\ settled(contents) /\ missing(contents)
    /\ progress' = Append(progress, entering("FAILED", "none"))
    /\ serveFails

parsing == <<entering("PARSING", "main"), entering("PARSING", "trans")>>
merging == <<entering("ALIGNING", "both"), entering("COMPOSING", "both")>>
formatting == <<entering("SERIALIZING", "both")>>
failing == <<entering("FAILED", "none")>>

canGenerate == spc = "fetching" /\ settled(contents) /\ ~missing(contents)

\* lines 442-446
ParseFails ==
    /\ canGenerate
    /\ progress' = progress \o parsing \o failing
    /\ serveFails

\* lines 442-452
MergeEmpty ==
    /\ canGenerate
    /\ progress' = progress \o parsing \o merging \o failing
    /\ serveFails

\* lines 442-458
FormatFails ==
    /\ canGenerate
    /\ progress' = progress \o parsing \o merging \o formatting \o failing
    /\ serveFails

\* lines 442-461 and 601-602
ServeMerged ==
    /\ canGenerate
    /\ progress' = progress \o parsing \o merging \o formatting
                            \o <<entering("DONE", "none")>>
    /\ served' = answer(200, "mergedSrtString")
    /\ spc' = "done"
    /\ UNCHANGED <<metadata, contents, listed, outsideServe>>

ServeNext ==
    \/ CheckLaunch
    \/ \E l \in Languages : SearchCompletes(l)
    \/ CheckFails
    \/ CheckSucceeds
    \/ CheckThrows
    \/ ServeBadRequest
    \/ GenerateLaunch
    \/ SearchesFail
    \/ DownloadsLaunch
    \/ \E l \in Languages : DownloadCompletes(l)
    \/ DownloadsFail
    \/ ParseFails
    \/ MergeEmpty
    \/ FormatFails
    \/ ServeMerged

ServeInit ==
    /\ spc = "handler"
    /\ metadata = both("none")
    /\ contents = both("none")
    /\ listed = NullSub /\ served = NullSub
    /\ progress = <<>>
    /\ mergeIdle /\ timeIdle /\ fetchIdle /\ handlerIdle /\ formatIdle /\ rateIdle /\ concurrentIdle /\ orderIdle /\ cacheIdle /\ awaitIdle

(***************************************************************************)
(* A request is served by the third variant or by the first.               *)
(***************************************************************************)
VariantsInit == HandlerInit \/ ServeInit
VariantsNext == HandlerNext \/ ServeNext
VariantsSpec == VariantsInit /\ [][VariantsNext]_vars

(***************************************************************************)
(* Claims about a request as a whole.                                      *)
(***************************************************************************)
has(history, stage) ==
    \E k \in 1..Len(history) : history[k].stage = stage

completed(stage, lang, id) ==
    \E k \in 1..Len(stages) : stages[k] = entered(stage, lang, id, TRUE)

resolved == "subtitles" \in DOMAIN handlerResponse

\* the third variant: the handler resolves, with no track unless it returns
\* its results, and every track is a merge that was serialised
handlerFailsEmpty ==
    hpc = "done" =>
        /\ resolved
        /\ ~returnedResults => handlerResponse.subtitles = <<>>
        /\ has(stages, "FAILED") => handlerResponse.subtitles = <<>>
        /\ \A j \in 1..Len(handlerResponse.subtitles) :
              /\ completed("PARSING", "main", handlerResponse.subtitles[j].id[2])
              /\ completed("SERIALIZING", "trans", handlerResponse.subtitles[j].id[3])

\* the first variant: the route answers, and with a file only if every stage
\* up to the serialisation was passed
serveFailsWithError ==
    /\ spc = "done" => (listed # NullSub \/ served # NullSub)
    /\ (spc = "done" /\ listed = serveLink) => served # NullSub
    /\ served # NullSub =>
          /\ served.status = 200 <=> has(progress, "DONE")
          /\ served.status = 200 =>
                has(progress, "SERIALIZING") /\ ~has(progress, "FAILED")
          /\ has(progress, "FAILED") => served.status = 500

\* C21 as stated: whenever a stage has failed or an exception was raised, the
\* handler has resolved with an empty list of subtitles.
C21_FailureGivesEmptyList ==
    /\ handlerFailsEmpty
    /\ (spc = "done" /\ has(progress, "FAILED")) =>
           listed # NullSub /\ listed.subtitles = <<>>

\* C21: the handler of the third variant resolves with an empty list when no
\* main candidate is usable, when no translation candidate gives a track and
\* when an exception is raised, and every track it returns is a serialised
\* merge.  The handler of the first variant has returned its link before the
\* pipeline runs; a failure of the pipeline is answered by the serve route
\* with status 500, and a file is served only after the serialisation.
C21_FailuresNeverCrashNorServePartial ==
    /\ handlerFailsEmpty
    /\ serveFailsWithError

\* an exception is raised after a track was stored, and the handler resolves
\* with no track
C21_Witness ==
    /\ hpc = "done"
    /\ ~returnedResults
    /\ finalSubtitles # <<>>
    /\ handlerResponse.subtitles = <<>>

\* the stage was completed for the candidate before position k of the history
completedBefore(k, stage, lang, id) ==
    \E j \in 1..(k - 1) : stages[j] = entered(stage, lang, id, TRUE)

enteredBefore(k, stage, lang) ==
    \E j \in 1..(k - 1) : progress[j] = entering(stage, lang)

\* C22: whenever mergeSubtitles is invoked, the main candidate in use and
\* the translation candidate at hand have each been downloaded, decoded and
\* parsed to the end; in the first variant both downloads have returned a
\* text and both texts were parsed.
C22_MergeAfterBothParsed ==
    /\ \A k \in 1..Len(stages) :
          stages[k].stage = "ALIGNING" =>
              /\ mainChosen
              /\ \A stage \in {"FETCHING", "DECODING", "PARSING"} :
                    /\ completedBefore(k, stage, "main", selectedMainSubInfo.id)
                    /\ completedBefore(k, stage, "trans", stages[k].id)
    /\ \A k \in 1..Len(progress) :
          progress[k].stage = "ALIGNING" =>
              /\ \A l \in Languages : contents[l] = "text"
              /\ \A l \in Languages :
                    /\ enteredBefore(k, "FETCHING", l)
                    /\ enteredBefore(k, "DECODING", l)
                    /\ enteredBefore(k, "PARSING", l)

\* a translation candidate could not be parsed and was not merged, the next
\* one was parsed and merged
C22_Witness ==
    /\ returnedResults
    /\ Len(selectedTransSubs) >= 2
    /\ selectedTransSubs[1].fate = "parseFails"
    /\ ~has(SelectSeq(stages, LAMBDA e : e.id = selectedTransSubs[1].id /\ e.lang = "trans"), "ALIGNING")
    /\ completed("ALIGNING", "trans", selectedTransSubs[2].id)

StageOrder == <<"SEARCHING", "FETCHING", "DECODING", "PARSING", "ALIGNING",
                "COMPOSING", "SERIALIZING", "DONE", "FAILED">>

rank(stage) == CHOOSE k \in 1..Len(StageOrder) : StageOrder[k] = stage

terminal(e) == e.stage \in {"DONE", "FAILED"}

neverBack(history) ==
    \A j, k \in 1..Len(history) :
        j < k => rank(history[j].stage) <= rank(history[k].stage)

endsOnce(history) ==
    \A k \in 1..(Len(history) - 1) : ~terminal(history[k])

\* the step from one entry of the third variant's history to the next: the
\* next stage of the same candidate, the download of another candidate, the
\* second search, or the end
handlerStep(a, b) ==
    \/ terminal(b)
    \/ a.stage = "SEARCHING" /\ a.lang = "main" /\ b.stage = "SEARCHING" /\ b.lang = "trans"
    \/ /\ b.stage = "FETCHING"
       /\ <<a.lang, a.id>> # <<b.lang, b.id>>
       /\ a.stage = "SEARCHING" => a.lang = "trans"
       /\ a.lang = "trans" /\ a.stage # "SEARCHING" => b.lang = "trans"
    \/ /\ <<a.lang, a.id>> = <<b.lang, b.id>>
       /\ a.ok
       /\ a.stage # "SEARCHING"
       /\ rank(b.stage) = rank(a.stage) + 1
       /\ b.stage \in {"ALIGNING", "COMPOSING", "SERIALIZING"} => b.lang = "trans"

\* the step from one entry of the first variant's history to the next: the
\* same stage for the other language, the next stage, or the end
serveStep(a, b) ==
    \/ terminal(b)
    \/ rank(b.stage) = rank(a.stage)
    \/ rank(b.stage) = rank(a.stage) + 1

launched(status, l) == status[l] # "none"

\* the two calls of a Promise.all are started together
launchedTogether(status) ==
    launched(status, "main") <=> launched(status, "trans")

searchedMain == \E k \in 1..Len(stages) :
                    stages[k].stage = "SEARCHING" /\ stages[k].lang = "main"
searchedTrans == \E k \in 1..Len(stages) :
                     stages[k].stage = "SEARCHING" /\ stages[k].lang = "trans"

\* C24 as stated: the fetch of the translation never waits for that of the
\* main language, so it has been started whenever the other has completed.
C24_SecondaryNeverWaits ==
    /\ launchedTogether(metadata) /\ launchedTogether(contents)
    /\ searchedMain => searchedTrans
    /\ \A k \in 1..Len(stages) :
          (stages[k].stage = "FETCHING" /\ stages[k].lang = "main") => transFetched

\* C24: in the first variant the two searches are started together, and the
\* two downloads are started together once both searches have found a
\* candidate; each completes whether or not the other has.  In the third
\* variant the search of the translation is started after that of the main
\* language has completed, and no translation candidate is downloaded
\* before a main candidate has been parsed.
C24_ParallelInFirstVariantOnly ==
    /\ launchedTogether(metadata) /\ launchedTogether(contents)
    /\ launched(contents, "main") => \A l \in Languages : metadata[l] = "found"
    /\ \A k \in 1..Len(stages) :
          /\ (stages[k].stage = "SEARCHING" /\ stages[k].lang = "trans") =>
                 \E j \in 1..(k - 1) :
                     stages[j].stage = "SEARCHING" /\ stages[j].lang = "main"
          /\ (stages[k].stage = "FETCHING" /\ stages[k].lang = "trans") =>
                 /\ mainChosen
                 /\ completedBefore(k, "PARSING", "main", selectedMainSubInfo.id)
    /\ hpc = "searchTrans" => searchedMain /\ ~searchedTrans

\* the download of the translation has completed while that of the main
\* language is in flight
C24_Witness ==
    /\ spc = "fetching"
    /\ contents["trans"] = "text"
    /\ contents["main"] = "pending"

(***************************************************************************)
(* formatSrt, lines 1846-1865.  An entry is a record that may carry an id; *)
(* the serialised text is the sequence of its blocks, each with the number *)
(* printed on its first line.  NoList stands for what is not an array.     *)
(***************************************************************************)
MaxEntries == 3     \* longest array given to formatSrt
MaxWaiting == 2     \* most searches queued, and most awaiting their microtask
MaxDownloads == 2   \* most content downloads started within one window
MaxSubmitted == 4   \* calls of withRateLimit that are followed to their end
MaxInFlight == 3    \* most calls whose promise is pending at one time
MaxMinutes == 6     \* the clock is followed over this many minutes
MaxLate == 1        \* and up to this many ms past a full minute

\* variant: an entry keeps the id it came with
keepId(sub, index) ==
    [f \in DOMAIN sub \cup {"id"} |->
        IF f = "id" /\ "id" \notin DOMAIN sub THEN decimal(index + 1) ELSE sub[f]]

\* lines 1854-1857: { ...sub, id: (index + 1).toString() }
sanitized(sub, index) ==
    [f \in DOMAIN sub \cup {"id"} |->
        IF f = "id" THEN decimal(index + 1) ELSE sub[f]]

\* line 1858: parser.toSrt prints the entries in order, the id first
toSrt(array) ==
    [k \in 1..Len(array) |-> [number |-> array[k].id, text |-> array[k].text]]

\* lines 1847-1850
FormatNotArray ==
    /\ qpc = "call"
    /\ subtitleArray = NoList
    /\ srtString' = NoList
    /\ qpc' = "returned"
    /\ UNCHANGED <<subtitleArray, outsideFormat>>

\* lines 1851-1858
FormatSrt ==
    /\ qpc = "call"
    /\ subtitleArray # NoList
    /\ LET sanitizedArray ==
               [k \in 1..Len(subtitleArray) |-> sanitized(subtitleArray[k], k - 1)]
       IN  srtString' = toSrt(sanitizedArray)
    /\ qpc' = "returned"
    /\ UNCHANGED <<subtitleArray, outsideFormat>>

\* lines 1859-1864: parser.toSrt throws
FormatThrows ==
    /\ qpc = "call"
    /\ subtitleArray # NoList
    /\ srtString' = NoList
    /\ qpc' = "returned"
    /\ UNCHANGED <<subtitleArray, outsideFormat>>

FormatNext == FormatNotArray \/ FormatSrt \/ FormatThrows

\* the ids that the entries come with: their own, repeated, unordered, not
\* numbers, or none
EntryIds == {<<"1">>, <<"2">>, <<"9">>, <<"x">>, <<>>}

Entry(id, text) ==
    IF id = <<>> THEN [text |-> text] ELSE [id |-> id, text |-> text]

FormatInit ==
    /\ qpc = "call"
    /\ srtString = NoList
    /\ \/ subtitleArray = NoList
       \/ \E n \in 0..MaxEntries :
            \E ids \in [1..n -> EntryIds], texts \in [1..n -> {"a", "b"}] :
                subtitleArray = [k \in 1..n |-> Entry(ids[k], texts[k])]
    /\ mergeIdle /\ timeIdle /\ fetchIdle /\ handlerIdle /\ serveIdle /\ rateIdle /\ concurrentIdle /\ orderIdle /\ cacheIdle /\ awaitIdle

FormatSpec == FormatInit /\ [][FormatNext]_vars

\* C25: the text that formatSrt returns has one block for each entry it is
\* given, in order, and the k-th block is numbered k in decimal, whatever id
\* the entry carried.
C25_EntriesNumberedFromOne ==
    (qpc = "returned" /\ srtString # NoList) =>
        /\ Len(srtString) = Len(subtitleArray)
        /\ \A k \in 1..Len(srtString) :
              /\ parseInt(srtString[k].number) = k
              /\ srtString[k].number = decimal(k)
              /\ srtString[k].text = subtitleArray[k].text

\* three entries whose ids are 9, none and 2 are serialised
C25_Witness ==
    /\ qpc = "returned"
    /\ srtString # NoList
    /\ Len(subtitleArray) = 3
    /\ subtitleArray[1] = Entry(<<"9">>, "a")
    /\ subtitleArray[2] = Entry(<<>>, "b")
    /\ subtitleArray[3] = Entry(<<"2">>, "a")

(***************************************************************************)
(* The rate limiter shared by all requests, and the requests that leave    *)
(* the process.  A search is wrapped in withRateLimit; the content of a    *)
(* chosen subtitle is downloaded by fetchSubtitleContent with a plain      *)
(* axios.get.  A window is the time between two runs of the interval       *)
(* callback; sent counts the requests started within the current window.   *)
(***************************************************************************)
SearchLanguages == {"eng", "jpn"}

limiter == [count |-> requestsThisMinute, queue |-> requestQueue, tasks |-> microtasks]

\* variant: a search beyond the cap is put at the front of the queue
executeWithRateLimitUnshift(l, fn) ==
    IF l.count < MAX_REQUESTS_PER_MINUTE
    THEN [l EXCEPT !.count = @ + 1, !.tasks = Append(@, fn)]
    ELSE [l EXCEPT !.queue = <<fn>> \o @]

\* a slot is taken and fn is scheduled, or fn is queued for the next minute
executeWithRateLimit(l, fn) ==
    IF l.count < MAX_REQUESTS_PER_MINUTE
    THEN [l EXCEPT !.count = @ + 1, !.tasks = Append(@, fn)]
    ELSE [l EXCEPT !.queue = Append(@, fn)]

\* variant: the reset callback leaves the queue alone
processNoQueued(l) == l

\* variant: the reset callback hands over one queued search only
processOneQueued(l) ==
    IF l.count < MAX_REQUESTS_PER_MINUTE /\ Len(l.queue) > 0
    THEN executeWithRateLimit([l EXCEPT !.queue = Tail(@)], Head(l.queue))
    ELSE l

RECURSIVE processQueued(_)
processQueued(l) ==
    IF l.count < MAX_REQUESTS_PER_MINUTE /\ Len(l.queue) > 0
    THEN processQueued(executeWithRateLimit([l EXCEPT !.queue = Tail(@)], Head(l.queue)))
    ELSE l

nothingSent == [search |-> 0, butaNoSubs |-> 0, content |-> 0]

\* a request calls withRateLimit for a search in one language
WithRateLimit(languageId) ==
    /\ Len(microtasks) < MaxWaiting
    /\ Len(requestQueue) < MaxWaiting
    /\ requestTimer' = TRUE
    /\ LET l == executeWithRateLimit(limiter, languageId) IN
        /\ requestsThisMinute' = l.count
        /\ requestQueue' = l.queue
        /\ microtasks' = l.tasks
    /\ UNCHANGED <<sent, outsideRate>>

\* the scheduled function runs: the search goes out, and for Japanese a
\* second request goes to the other provider in the same slot
SearchStarts ==
    /\ microtasks # <<>>
    /\ microtasks' = Tail(microtasks)
    /\ sent' = [sent EXCEPT !.search = @ + 1,
                            !.butaNoSubs = IF Head(microtasks) = "jpn" THEN @ + 1 ELSE @]
    /\ UNCHANGED <<requestsThisMinute, requestQueue, requestTimer, outsideRate>>

\* fetchSubtitleContent asks for the content of a chosen subtitle
ContentDownloadStarts ==
    /\ sent.content < MaxDownloads
    /\ sent' = [sent EXCEPT !.content = @ + 1]
    /\ UNCHANGED <<requestsThisMinute, requestQueue, requestTimer, microtasks, outsideRate>>

\* the interval callback: a timer callback runs only when no microtask is
\* left; it resets the counter and hands the queued searches to the limiter
RateLimitReset ==
    /\ requestTimer
    /\ microtasks = <<>>
    /\ LET l == processQueued([limiter EXCEPT !.count = 0]) IN
        /\ requestsThisMinute' = l.count
        /\ requestQueue' = l.queue
        /\ microtasks' = l.tasks
    /\ sent' = nothingSent
    /\ UNCHANGED <<requestTimer, outsideRate>>

RateNext ==
    \/ \E languageId \in SearchLanguages : WithRateLimit(languageId)
    \/ SearchStarts
    \/ ContentDownloadStarts
    \/ RateLimitReset

RateInit ==
    /\ requestsThisMinute = 0 /\ requestQueue = <<>> /\ requestTimer = FALSE
    /\ microtasks = <<>>
    /\ sent = nothingSent
    /\ mergeIdle /\ timeIdle /\ fetchIdle /\ handlerIdle /\ serveIdle /\ formatIdle /\ concurrentIdle /\ orderIdle /\ cacheIdle /\ awaitIdle

RateSpec == RateInit /\ [][RateNext]_vars

\* requests to OpenSubtitles started in the window: searches and downloads of
\* its links (the Japanese extra request goes to another host and is left out)
startedThisWindow == sent.search + sent.content

\* C26: no more than 40 requests to the subtitle provider are started between
\* two consecutive resets of the counter.
C26_AtMostFortyStartedPerWindow ==
    startedThisWindow <= MAX_REQUESTS_PER_MINUTE

\* what the limiter does guarantee: the searches started in a window are the
\* slots taken less the ones still to start, never more than 40, and a search
\* waits in the queue only when every slot is taken
C26_SearchesWithinCap ==
    /\ sent.search + Len(microtasks) = requestsThisMinute
    /\ requestsThisMinute <= MAX_REQUESTS_PER_MINUTE
    /\ requestQueue # <<>> => requestsThisMinute = MAX_REQUESTS_PER_MINUTE

(***************************************************************************)
(* Claims about the arguments of mergeSubtitles and about its two          *)
(* shortcuts, the early end of the inner loop and the cursor.              *)
(***************************************************************************)
\* C28: no step of a call of mergeSubtitles changes mainSubs or transSubs:
\* length, order, times and texts of both stay as the caller passed them.
C28_InputsUnchanged ==
    [][call' = call => (mainSubs' = mainSubs /\ transSubs' = transSubs)]_vars

\* a call has returned a record whose text differs from its main entry's
C28_Witness ==
    /\ returned /\ call = 1
    /\ Len(mergedSubs) = 2
    /\ \E k \in 1..Len(origin) :
          /\ origin[k].trans # -1
          /\ mergedSubs[k].text # mainSubs[origin[k].main + 1].text

\* every entry has both times, parsable, with end >= start
timed(seq) ==
    \A k \in 1..Len(seq) :
        /\ hasTimes(seq[k])
        /\ seq[k].startTime.kind = "wellformed"
        /\ seq[k].endTime.kind = "wellformed"
        /\ startMs(seq[k]) <= endMs(seq[k])

timeOrdered(seq) ==
    /\ timed(seq)
    /\ \A k \in 1..Len(seq) - 1 : startMs(seq[k]) <= startMs(seq[k + 1])

\* the inner loop was left by one of its two break statements, at index i
stoppedEarly == pc = "emit" /\ i < Len(transSubs)

\* C29: when the translation entries are sorted by start time with
\* end >= start and the inner loop breaks at an entry that starts after the
\* main entry's end plus the threshold, neither that entry nor any later one
\* satisfies one of the five conditions against the main entry, so the best
\* match found so far is the best match of the whole sequence.
C29_EarlyStopLosesNoCandidate ==
    (stoppedEarly /\ timeOrdered(transSubs)) =>
        /\ \A k \in i + 1..Len(transSubs) : ~qualifies(mainSub, transSubs[k])
        /\ bestMatchIndex # -1 =>
              \A k \in 1..Len(transSubs) :
                  (k - 1 \in examined \/ k > i) /\ qualifies(mainSub, transSubs[k]) =>
                      startGap(mainSub, transSubs[bestMatchIndex + 1])
                          <= startGap(mainSub, transSubs[k])

\* a break after a match, with one more entry behind the stopping point
C29_Witness ==
    /\ stoppedEarly /\ timeOrdered(transSubs)
    /\ foundMatch
    /\ i + 1 < Len(transSubs)

\* the entries the cursor has passed match neither the main entry at hand
\* nor any later one
passedNeverMatch ==
    \A k \in 1..transIndex :
        \A m \in mainIdx + 1..Len(mainSubs) :
            ~invalidEntry(mainSubs[m]) => ~qualifies(mainSubs[m], transSubs[k])

cursorInRange ==
    /\ transIndex >= 0 /\ transIndex <= Len(transSubs)
    /\ (pc = "loop" /\ mainIdx = 0) => transIndex = 0

cursorNeverDecreases == call' = call => transIndex' >= transIndex

\* C30 as stated, for any two sequences.
C30_CursorPassesOnlySpentRecords ==
    /\ [](cursorInRange /\ passedNeverMatch)
    /\ [][cursorNeverDecreases]_vars

\* C30: the cursor starts at 0, never decreases during a call and never
\* exceeds the number of translation entries; when the main entries are
\* sorted by start time and every entry of both sequences has end >= start,
\* an entry the cursor has passed satisfies none of the five conditions for
\* the main entry at hand or for any later one.
C30_CursorPassesOnlySpentWhenOrdered ==
    /\ [](cursorInRange
          /\ ((timeOrdered(mainSubs) /\ timed(transSubs)) => passedNeverMatch))
    /\ [][cursorNeverDecreases]_vars

\* the cursor has moved while a later main entry is still to come
C30_Witness ==
    /\ pc = "scan" /\ transIndex >= 1
    /\ mainIdx + 1 < Len(mainSubs)
    /\ timeOrdered(mainSubs) /\ timed(transSubs)

(***************************************************************************)
(* mergeSubtitles as a function of its arguments.                          *)
(***************************************************************************)
RECURSIVE bestMatch(_, _, _, _, _)
\* the inner loop from index j on; acc holds bestMatchIndex, smallestTimeDiff
\* and transIndex
bestMatch(m, trans, threshold, j, acc) ==
    IF j >= Len(trans) THEN acc
    ELSE IF invalidEntry(trans[j + 1]) THEN bestMatch(m, trans, threshold, j + 1, acc)
    ELSE LET ms == parseTimeToMs(m, "startTime")
             me == parseTimeToMs(m, "endTime")
             ts == parseTimeToMs(trans[j + 1], "startTime")
             te == parseTimeToMs(trans[j + 1], "endTime")
             diff == timeDiff(ms, ts)
             moved == [acc EXCEPT !.transIndex =
                          IF te < ms - threshold * 2 /\ j = acc.transIndex
                          THEN j + 1 ELSE @]
         IN  IF potentialMatch(ms, me, ts, te, threshold)
             THEN bestMatch(m, trans, threshold, j + 1,
                      IF closer(diff, acc.smallestTimeDiff)
                      THEN [moved EXCEPT !.smallestTimeDiff = diff,
                                         !.bestMatchIndex = j]
                      ELSE moved)
             ELSE IF tooFarAfter(me, ts, threshold) THEN acc
             ELSE bestMatch(m, trans, threshold, j + 1, moved)

RECURSIVE mergeFrom(_, _, _, _, _)
\* the outer loop from the k-th main entry on, with the cursor at cursor
mergeFrom(mains, trans, threshold, k, cursor) ==
    IF k > Len(mains) THEN <<>>
    ELSE IF invalidEntry(mains[k]) THEN mergeFrom(mains, trans, threshold, k + 1, cursor)
    ELSE LET found == bestMatch(mains[k], trans, threshold, cursor,
                          [bestMatchIndex |-> -1, smallestTimeDiff |-> Infinity,
                           transIndex |-> cursor])
             pushed == IF found.bestMatchIndex # -1
                       THEN WithText(mains[k],
                                mergedText(mains[k], trans[found.bestMatchIndex + 1]))
                       ELSE WithText(mains[k], replaceLineBreaks(mains[k].text))
         IN  <<pushed>> \o mergeFrom(mains, trans, threshold, k + 1, found.transIndex)

mergeSubtitles(mains, trans, threshold) == mergeFrom(mains, trans, threshold, 1, 0)

\* the function and the step-by-step model of the call agree
MergeAgrees ==
    returned => mergedSubs = mergeSubtitles(mainSubs, transSubs, mergeThresholdMs)

formatSrt(array) ==
    toSrt([k \in 1..Len(array) |-> sanitized(array[k], k - 1)])

(***************************************************************************)
(* Two requests handled at once.  Node runs one handler until its next     *)
(* await: the searches (through the rate limiter), the two downloads and   *)
(* the upload.  Between two awaits fetchSubtitleContent decodes, the       *)
(* parser parses and mergeSubtitles and formatSrt run without a break, so  *)
(* only what lives across an await can meet the other request: the         *)
(* handler's variables, the limiter and the storage.  The window account   *)
(* sent is not kept here.                                                  *)
(***************************************************************************)
Requests == {1, 2}

\* variant: the handler's variables declared once, at module level
moduleScope(r) == 1

\* each invocation of the handler has its own mainParsed, finalSubtitles, ...
ownScope(r) == r

local(r) == locals[ownScope(r)]

noLocals ==
    [mainParsed |-> NoList, version |-> 0, mergedSrtString |-> NoList,
     finalSubtitles |-> <<>>]

assign(r, new) == locals' = [locals EXCEPT ![ownScope(r)] = new]

goes(r, to) == rpc' = [rpc EXCEPT ![r] = to]

limiterVars == <<requestsThisMinute, requestQueue, requestTimer, microtasks>>

\* the handler awaits fetchAndSelectSubtitle, which calls withRateLimit
RequestSearches(r) ==
    /\ rpc[r] \in {"main", "trans"}
    /\ requestTimer' = TRUE
    /\ LET l == executeWithRateLimit(limiter, r) IN
        /\ requestsThisMinute' = l.count
        /\ requestQueue' = l.queue
        /\ microtasks' = l.tasks
    /\ goes(r, IF rpc[r] = "main" THEN "mainLimited" ELSE "transLimited")
    /\ UNCHANGED <<sent, fetchedFor, locals, responses, outsideRequests>>

\* the limiter runs the search it let through
RequestSearchStarts(r) ==
    /\ microtasks # <<>> /\ Head(microtasks) = r
    /\ microtasks' = Tail(microtasks)
    /\ goes(r, IF rpc[r] = "mainLimited" THEN "mainSearching" ELSE "transSearching")
    /\ UNCHANGED <<requestsThisMinute, requestQueue, requestTimer, sent,
                   fetchedFor, locals, responses, outsideRequests>>

\* the main search is answered: the translation search is next
MainSearchAnswers(r) ==
    /\ rpc[r] = "mainSearching"
    /\ goes(r, "trans")
    /\ UNCHANGED <<limiterVars, sent, fetchedFor, locals, responses,
                   outsideRequests>>

\* the translation search is answered: the main content is asked for
TransSearchAnswers(r) ==
    /\ rpc[r] = "transSearching"
    /\ goes(r, "fetchMain")
    /\ UNCHANGED <<limiterVars, sent, fetchedFor, locals, responses,
                   outsideRequests>>

\* the main content arrives and is parsed; the candidate loop begins
MainArrives(r) ==
    /\ rpc[r] = "fetchMain"
    /\ assign(r, [mainParsed |-> fetchedFor[r].main, version |-> 1,
                  mergedSrtString |-> NoList, finalSubtitles |-> <<>>])
    /\ goes(r, "fetchTrans")
    /\ UNCHANGED <<limiterVars, sent, fetchedFor, responses,
                   outsideRequests>>

\* a candidate's content arrives; it is parsed, merged with mainParsed and
\* formatted, and the upload is awaited
TransArrives(r) ==
    /\ rpc[r] = "fetchTrans"
    /\ local(r).version \in 1..Len(fetchedFor[r].trans)
    /\ local(r).mainParsed # NoList
    /\ LET transParsed == fetchedFor[r].trans[local(r).version]
           mergedParsed == mergeSubtitles(local(r).mainParsed, transParsed,
                                          DefaultMergeThresholdMs)
       IN  assign(r, [local(r) EXCEPT !.mergedSrtString = formatSrt(mergedParsed)])
    /\ goes(r, "upload")
    /\ UNCHANGED <<limiterVars, sent, fetchedFor, responses,
                   outsideRequests>>

\* the upload is done: the track joins finalSubtitles, and the loop goes on
\* or the handler returns
Uploaded(r) ==
    /\ rpc[r] = "upload"
    /\ LET final == Append(local(r).finalSubtitles,
                        [version |-> local(r).version,
                         srt |-> local(r).mergedSrtString])
       IN  IF local(r).version \in 1..Len(fetchedFor[r].trans) - 1
           THEN /\ assign(r, [local(r) EXCEPT !.finalSubtitles = final,
                                              !.version = @ + 1])
                /\ goes(r, "fetchTrans")
                /\ UNCHANGED responses
           ELSE /\ assign(r, [local(r) EXCEPT !.finalSubtitles = final])
                /\ goes(r, "done")
                /\ responses' = [responses EXCEPT ![r] = final]
    /\ UNCHANGED <<limiterVars, sent, fetchedFor, outsideRequests>>

ConcurrentNext ==
    \/ \E r \in Requests :
          \/ RequestSearches(r)
          \/ RequestSearchStarts(r)
          \/ MainSearchAnswers(r)
          \/ TransSearchAnswers(r)
          \/ MainArrives(r)
          \/ TransArrives(r)
          \/ Uploaded(r)
    \/ RateLimitReset

\* parsed contents: one or two captions a second long, at 0 s and at 2 s
MainContents ==
    {Timed(<<<<0, 1000>>>>, "m"), Timed(<<<<2000, 3000>>>>, "m"),
     Timed(<<<<0, 1000>>, <<2000, 3000>>>>, "m")}
TransContents ==
    {Timed(<<<<0, 1000>>>>, "t"), Timed(<<<<2000, 3000>>>>, "t")}
CandidateContents ==
    {<<c>> : c \in TransContents} \cup {<<c, d>> : c \in TransContents, d \in TransContents}

ConcurrentInit ==
    /\ fetchedFor \in [Requests -> [main : MainContents, trans : CandidateContents]]
    /\ locals = [r \in Requests |-> noLocals]
    /\ rpc = [r \in Requests |-> "main"]
    /\ responses = [r \in Requests |-> NoList]
    \* searches of earlier requests may have taken slots of this minute
    /\ \/ requestsThisMinute = 0 /\ requestTimer = FALSE
       \/ requestsThisMinute \in {MAX_REQUESTS_PER_MINUTE - 2, MAX_REQUESTS_PER_MINUTE}
          /\ requestTimer = TRUE
    /\ requestQueue = <<>> /\ microtasks = <<>>
    /\ sent = nothingSent
    /\ mergeIdle /\ timeIdle /\ fetchIdle /\ handlerIdle /\ serveIdle /\ formatIdle /\ orderIdle /\ cacheIdle /\ awaitIdle

ConcurrentSpec == ConcurrentInit /\ [][ConcurrentNext]_vars

\* what a request returns when it is the only one
alone(got) ==
    [v \in 1..Len(got.trans) |->
        [version |-> v,
         srt |-> formatSrt(mergeSubtitles(got.main, got.trans[v],
                                          DefaultMergeThresholdMs))]]

\* C27: whatever the order in which the awaits of two requests are resumed,
\* each request returns the tracks it returns when handled alone on the same
\* fetched contents.
C27_TracksAsWhenAlone ==
    \A r \in Requests : rpc[r] = "done" => responses[r] = alone(fetchedFor[r])

\* both requests have returned, on different contents, with different tracks
C27_Witness ==
    /\ \A r \in Requests : rpc[r] = "done"
    /\ fetchedFor[1].main # fetchedFor[2].main
    /\ responses[1] # responses[2]
    /\ Len(responses[1]) = 2

\* strictly increasing start times, each entry ending before the next starts
strictlyOrdered(seq) ==
    /\ timed(seq)
    /\ \A k \in 1..Len(seq) - 1 :
          /\ startMs(seq[k]) < startMs(seq[k + 1])
          /\ endMs(seq[k]) <= startMs(seq[k + 1])

inScan == pc \in {"scan", "emit"} /\ examined # {}

\* where the cursor stood when the inner loop began: the first index examined
cursorAtStart == CHOOSE k \in examined : \A j \in examined : k <= j

farBefore(t) == endMs(t) < mainStartTime - mergeThresholdMs * 2

\* C31 as stated: with strictly ordered, non-overlapping translation entries
\* the cursor grows by at most one while one main entry is processed.
C31_AtMostOneStepPerPrimary ==
    (inScan /\ strictlyOrdered(transSubs)) => transIndex <= cursorAtStart + 1

\* C31: with strictly ordered, non-overlapping translation entries the cursor
\* moves, while one main entry is processed, past the entries from its
\* starting position on that end more than twice the threshold before the
\* main entry starts, one step for each entry examined, and stops at the
\* first examined entry that does not; this can be more than one step.
C31_CursorPassesLeadingRun ==
    (inScan /\ strictlyOrdered(transSubs)) =>
        /\ transIndex >= cursorAtStart
        /\ transIndex <= i + 1
        /\ \A k \in cursorAtStart + 1..transIndex : farBefore(transSubs[k])
        /\ (transIndex < i /\ transIndex < Len(transSubs)) =>
              ~farBefore(transSubs[transIndex + 1])

\* two steps of the cursor within the scan of one main entry
C31_Witness ==
    /\ inScan /\ strictlyOrdered(transSubs)
    /\ transIndex = cursorAtStart + 2

\* none of the four interval conditions holds between m and t
noRelationship(m, t) ==
    /\ ~startsOverlap(startMs(m), endMs(m), startMs(t), endMs(t))
    /\ ~endsOverlap(startMs(m), endMs(m), startMs(t), endMs(t))
    /\ ~isWithin(startMs(m), endMs(m), startMs(t), endMs(t))
    /\ ~contains(startMs(m), endMs(m), startMs(t), endMs(t))

onePair == Len(mainSubs) = 1 /\ Len(transSubs) = 1 /\ timed(mainSubs) /\ timed(transSubs)

\* C32: a translation entry in no interval relationship with the main entry
\* is merged into it exactly when their start times differ by less than the
\* threshold, whichever starts first: with the default of 500 ms a difference
\* of 499 merges and a difference of 500 does not.
C32_NearStartIsStrictlyBelowThreshold ==
    (returned /\ onePair /\ noRelationship(mainSubs[1], transSubs[1])) =>
        /\ Len(mergedSubs) = 1
        /\ hasMarkup(mergedSubs[1].text)
              <=> startGap(mainSubs[1], transSubs[1]) < mergeThresholdMs

\* merged at 499 ms before the main entry, with the default threshold
C32_Witness ==
    /\ returned /\ onePair /\ noRelationship(mainSubs[1], transSubs[1])
    /\ mergeThresholdMs = DefaultMergeThresholdMs
    /\ startMs(transSubs[1]) = startMs(mainSubs[1]) - (DefaultMergeThresholdMs - 1)
    /\ hasMarkup(mergedSubs[1].text)

\* the qualifying entries of the whole translation sequence, by 0-based index
candidatesOf(m) ==
    {k \in 0..Len(transSubs) - 1 : qualifies(m, transSubs[k + 1])}

\* a scan of the whole sequence from index 0 without early exit: the
\* smallest start difference, the lowest index among equals, -1 for none
referenceMatch(m) ==
    IF candidatesOf(m) = {} THEN -1
    ELSE CHOOSE k \in candidatesOf(m) :
            \A j \in candidatesOf(m) :
                \/ startGap(m, transSubs[k + 1]) < startGap(m, transSubs[j + 1])
                \/ startGap(m, transSubs[k + 1]) = startGap(m, transSubs[j + 1]) /\ k <= j

\* C33: for sequences sorted by start time with end >= start, every main
\* entry is merged with the translation index a full scan from index 0 would
\* choose (smallest start difference, lowest index on ties), or with none
\* when the full scan finds none.
C33_SameMatchAsFullScan ==
    (returned /\ timeOrdered(mainSubs) /\ timeOrdered(transSubs)) =>
        \A k \in 1..Len(origin) :
            origin[k].trans = referenceMatch(mainSubs[origin[k].main + 1])

\* the cursor has moved and a later main entry was still merged
C33_Witness ==
    /\ returned /\ timeOrdered(mainSubs) /\ timeOrdered(transSubs)
    /\ transIndex >= 1
    /\ Len(origin) = 2
    /\ origin[2].trans >= 1

\* C36: a search waits in requestQueue only while requestsThisMinute is 40;
\* with a slot free in the window the queue is empty.
C36_QueueOnlyAtCap ==
    requestQueue # <<>> => requestsThisMinute = MAX_REQUESTS_PER_MINUTE

\* the window is full and searches wait in the queue
C36_Witness ==
    /\ Len(requestQueue) = MaxWaiting
    /\ requestsThisMinute = MAX_REQUESTS_PER_MINUTE
    /\ microtasks = <<>>

(***************************************************************************)
(* The promises of withRateLimit.  Each call is given a ticket, its number *)
(* in the order of the calls; the function of a call is identified by its  *)
(* ticket in requestQueue and among the scheduled microtasks.              *)
(***************************************************************************)
Outcomes == {"fulfilled", "rejected"}

\* variant: .then(fn).then(resolve, resolve)
settlementAlwaysResolves(outcome) == "fulfilled"

\* Promise.resolve().then(fn).then(resolve).catch(reject)
settlement(outcome) == IF outcome = "fulfilled" THEN "fulfilled" ELSE "rejected"

pending == Len(requestQueue) + Len(microtasks) + Cardinality(running)

\* withRateLimit(fn): the timer is set up on the first call, and fn takes a
\* slot or is queued
Submits ==
    /\ submitted < MaxSubmitted
    /\ pending < MaxInFlight
    /\ submitted' = submitted + 1
    /\ requestTimer' = TRUE
    /\ LET l == executeWithRateLimit(limiter, submitted + 1) IN
        /\ requestsThisMinute' = l.count
        /\ requestQueue' = l.queue
        /\ microtasks' = l.tasks
        /\ waited' = IF l.queue # requestQueue THEN waited \cup {submitted + 1} ELSE waited
    /\ UNCHANGED <<sent, startOrder, running, lastSettled, outsideLimiter>>

\* the microtask scheduled by executeWithRateLimit calls fn
Starts ==
    /\ microtasks # <<>>
    /\ microtasks' = Tail(microtasks)
    /\ startOrder' = Append(startOrder, Head(microtasks))
    /\ running' = running \cup {Head(microtasks)}
    /\ UNCHANGED <<requestsThisMinute, requestQueue, requestTimer, sent,
                   submitted, waited, lastSettled, outsideLimiter>>

\* fn's promise settles (the search returns, fails or times out) and the
\* promise of withRateLimit follows it
Settles(ticket, outcome) ==
    /\ ticket \in running
    /\ running' = running \ {ticket}
    /\ lastSettled' = [ticket |-> ticket, fn |-> outcome, promise |-> settlement(outcome)]
    /\ UNCHANGED <<requestsThisMinute, requestQueue, requestTimer, microtasks, sent,
                   submitted, waited, startOrder, outsideLimiter>>

OrderNext ==
    \/ Submits
    \/ Starts
    \/ \E ticket \in 1..MaxSubmitted, outcome \in Outcomes : Settles(ticket, outcome)
    \/ RateLimitReset

OrderInit ==
    /\ submitted = 0 /\ waited = {} /\ startOrder = <<>> /\ running = {}
    /\ lastSettled = NullSub
    \* searches of earlier requests may have taken slots of this minute
    /\ \/ requestsThisMinute = 0 /\ requestTimer = FALSE
       \/ requestsThisMinute = MAX_REQUESTS_PER_MINUTE - 1 /\ requestTimer = TRUE
    /\ requestQueue = <<>> /\ microtasks = <<>>
    /\ sent = nothingSent
    /\ mergeIdle /\ timeIdle /\ fetchIdle /\ handlerIdle /\ serveIdle /\ formatIdle /\ concurrentIdle /\ cacheIdle /\ awaitIdle

OrderSpec == OrderInit /\ [][OrderNext]_vars

\* the interval keeps firing, microtasks run, and every search returns or
\* times out
OrderFairSpec ==
    /\ OrderSpec
    /\ WF_vars(RateLimitReset)
    /\ WF_vars(Starts)
    /\ \A ticket \in 1..MaxSubmitted :
          WF_vars(\E outcome \in Outcomes : Settles(ticket, outcome))

\* C34: functions are started in the order of their calls of withRateLimit:
\* the k-th function started is that of the k-th call, also when an earlier
\* call was queued and a later one came after the reset.
C34_StartedInSubmissionOrder ==
    startOrder = [k \in 1..Len(startOrder) |-> k]

\* the second call waited in the queue for a reset, the third came after the
\* reset and did not wait, and all three have started
C34_Witness ==
    /\ startOrder = <<1, 2, 3>>
    /\ 2 \in waited /\ 3 \notin waited

occurrences(seq, ticket) == Cardinality({k \in 1..Len(seq) : seq[k] = ticket})

\* every call made so far is in the queue, scheduled or started: once in all
heldOnce ==
    \A ticket \in 1..submitted :
        occurrences(requestQueue, ticket) + occurrences(microtasks, ticket)
            + occurrences(startOrder, ticket) = 1

\* a call is scheduled at once when the counter is below 40 and queued
\* otherwise, and an entry leaves the queue only in the reset callback, which
\* schedules it
scheduledOrQueued ==
    /\ submitted' = submitted + 1 =>
          IF requestsThisMinute < MAX_REQUESTS_PER_MINUTE
          THEN microtasks' = Append(microtasks, submitted') /\ requestQueue' = requestQueue
          ELSE requestQueue' = Append(requestQueue, submitted') /\ microtasks' = microtasks
    /\ Len(requestQueue') < Len(requestQueue) =>
          /\ microtasks = <<>>
          /\ microtasks' \o requestQueue' = requestQueue
          /\ requestsThisMinute' = Len(microtasks')

settledAsItsFunction ==
    lastSettled # NullSub => lastSettled.promise = lastSettled.fn

invokedAndSettled(ticket) ==
    occurrences(startOrder, ticket) = 1 /\ ticket \notin running

\* C35: every function passed to withRateLimit is called exactly once: it is
\* scheduled at once when fewer than 40 slots of the window are taken and
\* otherwise queued until a reset schedules it; it is never dropped and never
\* called twice; with the interval firing it is eventually called, and the
\* promise of withRateLimit is fulfilled or rejected as the function's is.
C35_EveryFunctionRunsOnce ==
    /\ [](heldOnce /\ settledAsItsFunction)
    /\ [][scheduledOrQueued]_vars
    /\ \A ticket \in 1..MaxSubmitted :
          [](submitted >= ticket => <>invokedAndSettled(ticket))

\* a call that waited in the queue has been started, and its promise was
\* rejected with its function's
C35_Witness ==
    /\ lastSettled # NullSub
    /\ lastSettled.ticket \in waited
    /\ lastSettled.promise = "rejected"
    /\ occurrences(startOrder, lastSettled.ticket) = 1

(***************************************************************************)
(* The temporary subtitle cache of the second variant: the handler stores  *)
(* the merged text under a random id, GET /subtitles/<id>.srt serves it,   *)
(* and an interval removes expired entries.  The clock does not go back.   *)
(***************************************************************************)
CacheIds == {"a", "b"}
CacheContents == {"x", "y"}

\* the test of the clean-up: now > entry.expires
expired(entry, t) == t > entry.expires

\* variant: an entry is served only before its expiry time
freshBefore(entry, t) == IF entry = NullSub THEN FALSE ELSE t < entry.expires

\* the test of the route: entry && Date.now() <= entry.expires
fresh(entry, t) == IF entry = NullSub THEN FALSE ELSE t <= entry.expires

\* time passes: a millisecond, or the minute between two clean-ups
ClockAdvances ==
    /\ \E d \in {1, CleanupIntervalMs} :
          /\ now + d <= MaxMinutes * CleanupIntervalMs + MaxLate
          /\ (now + d) % CleanupIntervalMs <= MaxLate
          /\ now' = now + d
    /\ reply' = NullSub
    /\ UNCHANGED <<subtitleCache, storedAt, outsideCache>>

\* the handler caches a merged text under the id it drew; 16 random bytes
\* can repeat an id, and set then replaces the entry
CacheInsert(uniqueId, mergedSrtString) ==
    /\ subtitleCache' = [subtitleCache EXCEPT ![uniqueId] =
           [content |-> mergedSrtString, expires |-> now + SUBTITLE_CACHE_TTL_MS]]
    /\ storedAt' = [storedAt EXCEPT ![uniqueId] = now]
    /\ reply' = NullSub
    /\ UNCHANGED <<now, outsideCache>>

\* the interval callback deletes every entry with now > expires
cleanupExpiredCache ==
    /\ subtitleCache' = [id \in CacheIds |->
           IF subtitleCache[id] = NullSub THEN NullSub
           ELSE IF expired(subtitleCache[id], now) THEN NullSub
           ELSE subtitleCache[id]]
    /\ reply' = NullSub
    /\ UNCHANGED <<now, storedAt, outsideCache>>

\* GET /subtitles/<id>.srt with a live entry
GetServes(id) ==
    /\ fresh(subtitleCache[id], now)
    /\ reply' = [id |-> id, status |-> 200, body |-> subtitleCache[id].content]
    /\ UNCHANGED <<now, subtitleCache, storedAt, outsideCache>>

\* GET /subtitles/<id>.srt without an entry, or with an expired one
GetNotFound(id) ==
    /\ ~fresh(subtitleCache[id], now)
    /\ subtitleCache' = [subtitleCache EXCEPT ![id] = NullSub]
    /\ reply' = [id |-> id, status |-> 404, body |-> "Subtitle not found or expired."]
    /\ UNCHANGED <<now, storedAt, outsideCache>>

CacheNext ==
    \/ ClockAdvances
    \/ \E id \in CacheIds, text \in CacheContents : CacheInsert(id, text)
    \/ cleanupExpiredCache
    \/ \E id \in CacheIds : GetServes(id) \/ GetNotFound(id)

CacheInit ==
    /\ now = 0
    /\ subtitleCache = [id \in CacheIds |-> NullSub]
    /\ storedAt = [id \in CacheIds |-> -1]
    /\ reply = NullSub
    /\ mergeIdle /\ timeIdle /\ fetchIdle /\ handlerIdle /\ serveIdle /\ formatIdle /\ rateIdle /\ concurrentIdle /\ orderIdle /\ awaitIdle

CacheSpec == CacheInit /\ [][CacheNext]_vars

\* an entry was stored under id and its five minutes are not over
live(id) == storedAt[id] # -1 /\ now <= storedAt[id] + SUBTITLE_CACHE_TTL_MS

\* C37: a GET for an id is answered with the stored text exactly when an
\* entry was stored under the id no more than five minutes before, and with
\* 404 otherwise, the entry then being removed; until its expiry an entry
\* stays in the cache with the expiry time it was stored with, whatever
\* reads and clean-ups happen.
C37_ServedUntilExpiry ==
    /\ \A id \in CacheIds :
          live(id) =>
              /\ subtitleCache[id] # NullSub
              /\ subtitleCache[id].expires = storedAt[id] + SUBTITLE_CACHE_TTL_MS
    /\ reply # NullSub =>
          /\ reply.status = 200 <=> live(reply.id)
          /\ reply.status = 200 => reply.body = subtitleCache[reply.id].content
          /\ reply.status # 200 =>
                reply.status = 404 /\ subtitleCache[reply.id] = NullSub

\* served at the last millisecond of its five minutes, after clean-ups
C37_Witness ==
    /\ reply # NullSub
    /\ reply.status = 200
    /\ storedAt[reply.id] > 0
    /\ now = storedAt[reply.id] + SUBTITLE_CACHE_TTL_MS

\* the translation candidates whose merged text was formatted
formattedCandidates ==
    {stages[k].id : k \in {j \in 1..Len(stages) :
        stages[j].lang = "trans" /\ stages[j].stage = "SERIALIZING" /\ stages[j].ok}}

attemptsFor(id) == SelectSeq(uploads, LAMBDA e : e.id = id)

tracksFor(id) ==
    SelectSeq(finalSubtitles, LAMBDA t : t.id[1] = "merged" /\ t.id[3] = id)

\* C38: for every candidate whose merged text was formatted, Vercel Blob is
\* tried first unless SKIP_VERCEL_BLOB is set, Supabase is tried only when
\* no Vercel URL came back and a client is configured, and the result holds
\* one track for the candidate when an upload returned a URL, with the id
\* suffix and URL of that store, and none otherwise; no other track exists.
C38_UploadOrderAndResult ==
    /\ \A id \in formattedCandidates :
          LET a == attemptsFor(id)
              t == tracksFor(id)
              vercelTried == a # <<>> /\ a[1].store = "vercel"
              vercelUrl == vercelTried /\ a[1].url
              supabaseTried == a # <<>> /\ a[Len(a)].store = "supabase"
              supabaseUrl == supabaseTried /\ a[Len(a)].url
          IN  /\ Len(a) <= 2
              /\ Len(a) = 2 => a[1].store = "vercel" /\ a[2].store = "supabase"
              /\ vercelTried <=> ~skipVercelBlob
              /\ supabaseTried <=> (~vercelUrl /\ supabase)
              /\ Len(t) = IF vercelUrl \/ supabaseUrl THEN 1 ELSE 0
              /\ vercelUrl => t[1].id[4] = "vercel" /\ t[1].url[1] = "vercel"
              /\ supabaseUrl => t[1].id[4] = "supabase" /\ t[1].url[1] = "supabase"
    /\ \A k \in 1..Len(finalSubtitles) : finalSubtitles[k].id[3] \in formattedCandidates
    /\ \A k \in 1..Len(uploads) : uploads[k].id \in formattedCandidates

\* Vercel Blob was tried and failed, Supabase returned a URL, and the track
\* was returned
C38_Witness ==
    /\ returnedResults
    /\ \E id \in formattedCandidates :
          /\ Len(attemptsFor(id)) = 2
          /\ ~attemptsFor(id)[1].url /\ attemptsFor(id)[2].url
          /\ Len(tracksFor(id)) = 1

(***************************************************************************)
(* A subtitle request from its arrival to its response: the handler with   *)
(* its two searches passing through the rate limiter, which other requests *)
(* may have filled, and with mergeSubtitles run step by step for every     *)
(* candidate that was parsed.  awaited tells what the handler waited for   *)
(* last; the limiter holds "main" and "trans" for the two searches of the  *)
(* request and "other" for the searches of other requests.                 *)
(***************************************************************************)
besidesLimiter == <<mergeVars, timeVars, fetchVars, handlerVars, serveVars,
                    formatVars, concurrentVars, orderVars, cacheVars>>
besidesMerge == <<timeVars, fetchVars, handlerVars, serveVars, formatVars,
                  rateVars, concurrentVars, orderVars, cacheVars>>

waitsFor(what, which) == [on |-> what, at |-> which]

\* from its call to its first await the handler runs without a break
uninterrupted == hpc = "start" /\ awaited.on = "nothing"

\* lines 1981 and 1984, 1428, 1409-1417: fetchAndSelectSubtitle calls
\* withRateLimit, and the handler waits for its promise
AsksForSlot ==
    /\ \/ hpc = "start" /\ request = "ok" /\ awaited.on = "nothing"
       \/ hpc = "searchTrans" /\ awaited.on = "mainSearch"
    /\ requestTimer' = TRUE
    /\ LET l == executeWithRateLimit(limiter,
                    IF hpc = "start" THEN "main" ELSE "trans") IN
        /\ requestsThisMinute' = l.count
        /\ requestQueue' = l.queue
        /\ microtasks' = l.tasks
    /\ awaited' = waitsFor(IF hpc = "start" THEN "mainSlot" ELSE "transSlot", 0)
    /\ UNCHANGED <<sent, besidesLimiter>>

\* lines 1396-1397: the limiter runs a function it let through; the search
\* of this request goes out
SlotGranted ==
    /\ microtasks # <<>>
    /\ ~uninterrupted
    /\ microtasks' = Tail(microtasks)
    /\ awaited' = CASE Head(microtasks) = "main" -> waitsFor("mainSearch", 0)
                    [] Head(microtasks) = "trans" -> waitsFor("transSearch", 0)
                    [] OTHER -> awaited
    /\ UNCHANGED <<requestsThisMinute, requestQueue, requestTimer, sent,
                   besidesLimiter>>

\* the search is answered or times out (line 1431)
MainSearchEnds == awaited.on = "mainSearch" /\ SearchMain
TransSearchEnds == awaited.on = "transSearch" /\ SearchTrans

\* what the two parsers may hand to mergeSubtitles
ParsedPairs ==
    {<<Timed(<<<<0, 1000>>, <<2000, 3000>>>>, "m"),
       Timed(<<<<0, 1000>>, <<2000, 3000>>>>, "t")>>,
     <<<<SubNoEnd(WellFormed(0), <<"m", "a">>),
         Sub(WellFormed(0), WellFormed(1000), <<"m", "b">>)>>,
       <<SubNoStart(WellFormed(1000), <<"t", "a">>),
         Sub(WellFormed(5000), WellFormed(6000), <<"t", "b">>)>>>>,
     <<<<SubNoText(WellFormed(0), WellFormed(1000))>>,
       Timed(<<<<5000, 6000>>>>, "t")>>}

inMerge == inTransLoop /\ awaited = waitsFor("merge", tIdx)

\* line 2067: mergeSubtitles([...mainParsed], transParsed)
MergeCalled ==
    /\ inTransLoop
    /\ transSubInfo.fate \notin {"fetchFails", "parseFails"}
    /\ ~inMerge
    /\ \E parsed \in ParsedPairs :
          /\ mainSubs' = IF mainParsed.empty THEN <<>> ELSE parsed[1]
          /\ transSubs' = parsed[2]
    /\ mergeThresholdMs' = DefaultMergeThresholdMs
    /\ mergedSubs' = <<>> /\ transIndex' = 0 /\ mainIdx' = 0 /\ i' = 0
    /\ foundMatch' = FALSE /\ bestMatchIndex' = -1 /\ smallestTimeDiff' = Infinity
    /\ pc' = "loop" /\ examined' = {} /\ origin' = <<>>
    /\ call' = 1
    /\ awaited' = waitsFor("merge", tIdx)
    /\ UNCHANGED besidesMerge

\* lines 1712-1794, within the call
MergeRuns ==
    /\ inMerge
    /\ \/ SkipInvalidMain
       \/ StartScan
       \/ SkipInvalidTrans
       \/ PotentialMatch
       \/ StopAfterMatch
       \/ StopNoMatch
       \/ PassOver
       \/ PushMerged
       \/ PushUnmerged
       \/ ThrowTypeError
       \/ Return

\* lines 2068-2160, after mergeSubtitles returned
CandidateEnds ==
    /\ inMerge /\ pc = "done"
    /\ \/ TransMergeEmpty
       \/ TransFormatFails
       \/ TransUploadFails
       \/ TransStored

\* lines 2174-2177: the TypeError of mergeSubtitles is caught
MergeThrew == inMerge /\ pc = "threw" /\ Throws

HandlerGoesOn ==
    \/ ReturnSameLanguages
    \/ ReturnNoImdbId
    \/ ReturnNoMainList
    \/ ReturnNoTransList
    \/ SelectTranslations
    \/ MainFetchFails
    \/ MainParseFails
    \/ MainSucceeds
    \/ ReturnNoMainParsed
    \/ TransFetchFails
    \/ TransParseFails
    \/ MergeCalled
    \/ MergeRuns
    \/ CandidateEnds
    \/ MergeThrew
    \/ ReturnResults

\* line 1926: the handler is called with a request; what the provider will
\* answer and what will become of each candidate is fixed here
RequestArrives ==
    /\ hpc = "idle"
    \* a request is taken up when no microtask is left
    /\ microtasks = <<>>
    /\ IF requestTimer
       THEN \* the limiter is busy with other requests: a plain request
            /\ request' = "ok"
            /\ mainResponse' = OneMain("ok")
            /\ transResponse' = OneTrans("bothUp")
            /\ supabase' = TRUE
       ELSE \/ /\ request' = "ok"
               /\ mainResponse' \in {NoList, OneMain("ok"), OneMain("okEmpty"),
                                     OneMain("fetchFails"), OneMain("parseFails")}
               /\ \/ transResponse' = NoList
                  \/ \E g \in [1..1 -> TransFates] :
                        transResponse' = DistinctTransResponse(1, g)
                  \/ \E g \in [1..2 -> {"fetchFails", "formatFails", "bothUp"}] :
                        transResponse' = DistinctTransResponse(2, g)
               /\ supabase' \in BOOLEAN
            \/ /\ request' \in {"sameLanguages", "noImdbId"}
               /\ mainResponse' = OneMain("ok")
               /\ transResponse' = OneTrans("bothUp")
               /\ supabase' = TRUE
    /\ skipVercelBlob' = FALSE
    /\ hpc' = "start"
    /\ UNCHANGED <<mainSubInfoList, transSubInfoList, selectedTransSubs,
                   mainParsed, selectedMainSubInfo, finalSubtitles, mainCursor,
                   tIdx, handlerResponse, fetchedContent, stages, uploads,
                   outsideHandler>>

\* lines 1378-1386: a timer callback does not interrupt the handler
TimerFires == ~uninterrupted /\ RateLimitReset

SubtitleRequestNext ==
    \/ RequestArrives
    \/ AsksForSlot
    \/ SlotGranted
    \/ TimerFires
    \/ MainSearchEnds
    \/ TransSearchEnds
    \/ HandlerGoesOn

otherSearches == [k \in 1..MAX_REQUESTS_PER_MINUTE |-> "other"]

\* the searches of other requests may have filled this minute, and the next
SubtitleRequestInit ==
    /\ \/ requestsThisMinute = 0 /\ requestTimer = FALSE /\ requestQueue = <<>>
       \/ /\ requestsThisMinute \in {MAX_REQUESTS_PER_MINUTE - 1,
                                     MAX_REQUESTS_PER_MINUTE}
          /\ requestTimer = TRUE
          /\ requestQueue = <<>>
       \/ /\ requestsThisMinute = MAX_REQUESTS_PER_MINUTE
          /\ requestTimer = TRUE
          /\ requestQueue = otherSearches
    /\ microtasks = <<>> /\ sent = nothingSent
    /\ awaited = waitsFor("nothing", 0)
    /\ handlerIdle
    /\ mergeIdle /\ timeIdle /\ fetchIdle /\ serveIdle /\ formatIdle /\ concurrentIdle /\ orderIdle /\ cacheIdle

SubtitleRequestSpec == SubtitleRequestInit /\ [][SubtitleRequestNext]_vars

\* the states in which the callback of the interval changes something
timerDue ==
    /\ ~uninterrupted /\ requestTimer /\ microtasks = <<>>
    /\ \/ processQueued([limiter EXCEPT !.count = 0]) # limiter
       \/ sent # nothingSent

\* the states in which the translation search is out
transSearchOut == hpc = "searchTrans" /\ awaited.on = "transSearch"

\* every network call returns or times out (timeouts of lines 1431, 1439
\* and 1536) and the handler runs on; the microtasks of the limiter run; the
\* interval of line 1378 keeps firing.  The last two conjuncts are the weak
\* fairness of TransSearchEnds and of TimerFires, with the states in which
\* they are enabled written out.
SubtitleRequestFairSpec ==
    /\ SubtitleRequestSpec
    /\ WF_vars(HandlerGoesOn)
    /\ WF_vars(AsksForSlot)
    /\ WF_vars(SlotGranted)
    /\ WF_vars(MainSearchEnds)
    /\ []<>~transSearchOut \/ []<><<TransSearchEnds>>_vars
    /\ []<>~timerDue \/ []<><<TimerFires>>_vars

fetchesOf(lang) ==
    Cardinality({k \in 1..Len(stages) :
                    stages[k].stage = "FETCHING" /\ stages[k].lang = lang})

\* the handler returned a response with a list of tracks
responded ==
    /\ hpc = "done"
    /\ handlerResponse # NullSub
    /\ handlerResponse.subtitles \in {finalSubtitles, <<>>}

\* the positions of the four loops stay within their lists, and a candidate
\* is downloaded once for each turn of its loop
loopsBounded ==
    /\ mainCursor <= Len(mainSubInfoList) /\ tIdx <= Len(selectedTransSubs)
    /\ fetchesOf("main") <= Len(mainSubInfoList)
    /\ fetchesOf("trans") = tIdx
    /\ mainIdx <= Len(mainSubs) /\ i <= Len(transSubs)
    /\ Len(mergedSubs) <= mainIdx

\* C39: under the fairness of SubtitleRequestFairSpec every request is
\* answered with a list of merged tracks or an empty list; the candidate
\* loops take one turn per listed candidate at most, the positions of the
\* loops of mergeSubtitles stay within their lists, and every call of
\* mergeSubtitles returns or throws.
C39_EveryRequestIsAnswered ==
    /\ []loopsBounded
    /\ (hpc = "start") ~> responded
    /\ [](hpc = "done" => responded)
    /\ (inMerge /\ pc \notin {"done", "threw"}) ~> (pc \in {"done", "threw"})

\* a request is answered with two tracks, the counter having been reset after
\* its main search took a slot and before its translation search ran
C39_Witness ==
    /\ responded
    /\ Len(handlerResponse.subtitles) = 2
    /\ tIdx = 2 /\ awaited = waitsFor("merge", 1)
    /\ requestsThisMinute = 1

====
